---- MODULE Spec2Model ----
(***************************************************************************)
(* Medallion ETL pipeline of passos_magicos: make_bronze -> make_silver -> *)
(* make_gold.  Directories are functions from file names to contents, data *)
(* frames are sequences of records (one record per row, one field per      *)
(* column).  Each stage is a run-to-completion script; its loop positions   *)
(* are kept in a program counter so that intermediate states are visible.  *)
(***************************************************************************)
EXTENDS Integers, Sequences, FiniteSets, TLC

\* ------------------------------------------------------------------ bounds
MaxDrops == 2        \* files dropped into the landing directory
MaxBronzeRuns == 2   \* Bronze runs
MaxSheets == 2       \* sheets per workbook
MaxRows == 3         \* rows of a frame handed to the Gold functions
MaxFileRows == 1     \* rows of one Silver input file of a Gold run
MaxPipelineRows == 1 \* rows of one sheet in the end-to-end run
MaxBatchRows == 2    \* rows of one Bronze file handed to a Silver run
MaxSilverRuns == 2   \* Silver runs over one Bronze directory
MaxCols == 3         \* columns of a frame handed to _validate_schema_pandera
MaxFnRows == 1       \* rows of a frame handed to one Silver function
MaxIppRows == 2      \* rows of a frame handed to _calculate_missing_ipp
MaxRequests == 2     \* requests served by the API
MaxNamedRows == 1    \* rows of one Bronze file in the runs over named files

\* ------------------------------------------------------------ value spaces
NA == -99                                 \* NaN / pd.NA / None
NULLSTR == "<NA>"                         \* pd.NA in a column of strings
LandingNames == {"a.xlsx", "b.xlsx"}
SheetNames == {"PEDE2022", "PEDE2023"}
Versions == {1, 2}                        \* distinct contents of a workbook of one shape

EmptyDir == [x \in {} |-> 0]
Put(dir, name, content) ==
    [x \in (DOMAIN dir) \cup {name} |-> IF x = name THEN content ELSE dir[x]]
Del(dir, name) == [x \in (DOMAIN dir) \ {name} |-> dir[x]]

\* every order in which glob may return the entries of a directory
Orders(S) ==
    {s \in [1..Cardinality(S) -> S] : \A i, j \in 1..Cardinality(S) : s[i] = s[j] => i = j}

Range(s) == {s[i] : i \in 1..Len(s)}
SeqsUpTo(S, n) == UNION {[1..k -> S] : k \in 0..n}

\* astype(str) on one cell: NaN becomes the string "nan"
AsStr(c) == IF c = NA THEN "nan" ELSE ToString(c)

VARIABLES
    landing,            \* data/00_landing: name -> workbook
    archive,            \* data/99_archive: name -> workbook
    bronze,             \* data/01_bronze: sheet (file bronze_<sheet>.parquet) -> frame
    bpc,                \* position of make_bronze.main
    files_in_landing,   \* files the running Bronze loop still has to visit
    file_name,          \* file of the current loop iteration
    sheet_idx,          \* next sheet of the open workbook
    bronze_log,         \* log records of the current / last Bronze run
    bronze_result,      \* "none" | "running" | "returned" | "raised"
    bronze_runs,        \* number of Bronze runs started
    drops,              \* number of files dropped into landing
    ingested,           \* (source, sheet) pairs written to Bronze so far
    landing_at_start,   \* landing directory as the current / last run found it
    bronze_at_start,    \* bronze directory as the current / last run found it
    archive_at_start    \* archive directory as the current / last run found it

bronzeVars == <<landing, archive, bronze, bpc, files_in_landing, file_name,
                sheet_idx, bronze_log, bronze_result, bronze_runs, drops,
                ingested, landing_at_start, bronze_at_start, archive_at_start>>

VARIABLES
    silver_dir,         \* data/02_silver: file name -> frame
    gpc,                \* position of make_gold.main
    df_silver,          \* frame returned by load_silver_data
    df_gold,            \* frame returned by engineer_features_and_target
    feature_store,      \* data/03_gold/feature_store.parquet (<<>> of columns when absent)
    train_data,         \* data/03_gold/train_data.parquet
    aluno_features,     \* table aluno_features of feature_store_online.db
    gold_log,           \* log records of the current / last Gold run
    gold_result,        \* "none" | "running" | "ok" | "failed" | "raised"
    online_before       \* student ids in aluno_features when the current / last run started

goldVars == <<silver_dir, gpc, df_silver, df_gold, feature_store, train_data,
              aluno_features, gold_log, gold_result, online_before>>

VARIABLES
    spc,                        \* position of make_silver.main
    bronze_files,               \* Bronze files the running Silver loop still has to visit
    df_historical_reference,    \* in-memory drift baseline (rows)
    is_cold_start,              \* baseline was empty when the run started
    silver_log,                 \* log records of the current / last Silver run
    silver_result,              \* "none" | "running" | "returned" | "raised"
    reports,                    \* data/reports: batch years with a drift report
    silver_runs,                \* number of Silver runs started
    silver_prev_result,         \* silver_result of the run before the current / last one
    silver_at_start,            \* data/02_silver as the current / last Silver run found it
    files_read                  \* Bronze files the current / last Silver run has read

VARIABLES
    fn_name,                    \* Silver function under call, "none" outside such a call
    fn_in,                      \* its argument
    fn_out,                     \* [raised, value] once it has returned or raised
    fn_pc                       \* "call" | "done"

fnVars == <<fn_name, fn_in, fn_out, fn_pc>>

silverVars == <<spc, bronze_files, df_historical_reference, is_cold_start,
                silver_log, silver_result, reports, silver_runs,
                silver_prev_result, silver_at_start, files_read, fnVars>>

VARIABLES
    app_model,                  \* app.state.model: "none" | "loaded"
    responses                   \* responses of the API to the requests served so far

serveVars == <<app_model, responses>>

vars == <<bronzeVars, goldVars, silverVars, serveVars>>

\* --------------------------------------------------------------- workbooks
\* A workbook is corrupt (pd.ExcelFile raises) or has 1..MaxSheets sheets with
\* distinct names; a sheet that is not ok raises while it is read or written.
SheetSeqs ==
    UNION {{s \in [1..n -> SheetNames] : \A i, j \in 1..n : s[i] = s[j] => i = j}
           : n \in 1..MaxSheets}

RawRows(v) == <<[RA |-> v, Defasagem |-> 0]>>

Workbook(v, names, badAt) ==
    [corrupt |-> FALSE,
     sheets |-> [i \in 1..Len(names) |->
                    [name |-> names[i], ok |-> (i # badAt), rows |-> RawRows(v)]]]

CorruptWorkbook(v) == [corrupt |-> TRUE, sheets |-> <<>>, text |-> v]

Workbooks ==
    {CorruptWorkbook(v) : v \in Versions}
    \cup {Workbook(v, names, badAt) :
            v \in Versions, names \in SheetSeqs, badAt \in 0..MaxSheets}

AllSheetsOk(wb) == ~wb.corrupt /\ \A i \in 1..Len(wb.sheets) : wb.sheets[i].ok

\* ------------------------------------------------------------- make_bronze
\* One sheet as written to bronze_<sheet>.parquet: the metadata columns are
\* added and every value is cast to str.
BronzeFrame(rows, source, sheet, now) ==
    [i \in 1..Len(rows) |->
        [RA |-> AsStr(rows[i].RA),
         Defasagem |-> AsStr(rows[i].Defasagem),
         metadata_source |-> source,
         metadata_sheet |-> sheet,
         metadata_ingestion_date |-> AsStr(now)]]

\* glob found nothing: `if not files_in_landing`
NoFilesFound_never(dir) == FALSE
NoFilesFound(dir) == DOMAIN dir = {}

\* os.path.exists / os.remove / shutil.move on the archive side
ArchiveReplace_remove_only(dir, name, wb) == Del(dir, name)
ArchiveReplace_keep_old(dir, name, wb) ==
    IF name \in DOMAIN dir THEN dir ELSE Put(dir, name, wb)
ArchiveReplace(dir, name, wb) == Put(Del(dir, name), name, wb)

\* data/01_bronze after sheet k of a workbook raised: the except clause only
\* logs, the files of sheets 1..k-1 are not removed
AfterSheetError_rollback(dir, wb, k) ==
    [x \in (DOMAIN dir) \ {wb.sheets[i].name : i \in 1..(k - 1)} |-> dir[x]]
AfterSheetError(dir, wb, k) == dir

\* shutil.move on the landing side: the source file is gone afterwards
MoveOut_copy(dir, name) == dir
MoveOut(dir, name) == Del(dir, name)

\* An external producer drops a workbook into the landing directory.
Land ==
    /\ UNCHANGED <<serveVars, goldVars, silverVars>>
    /\ bpc = "idle"
    /\ drops < MaxDrops
    /\ \E n \in LandingNames, wb \in Workbooks : landing' = Put(landing, n, wb)
    /\ drops' = drops + 1
    /\ UNCHANGED <<archive, bronze, bpc, files_in_landing, file_name, sheet_idx,
                   bronze_log, bronze_result, bronze_runs, ingested,
                   landing_at_start, bronze_at_start, archive_at_start>>

\* main(), lines 16-21: glob the landing directory; warn and return if empty.
BronzeStart ==
    /\ UNCHANGED <<serveVars, goldVars, silverVars>>
    /\ bpc = "idle"
    /\ bronze_runs < MaxBronzeRuns
    /\ bronze_runs' = bronze_runs + 1
    /\ landing_at_start' = landing
    /\ bronze_at_start' = bronze
    /\ archive_at_start' = archive
    /\ file_name' = ""
    /\ sheet_idx' = 0
    /\ IF NoFilesFound(landing)
       THEN /\ bronze_log' = <<[level |-> "warning", msg |-> "no_files", file |-> ""]>>
            /\ bronze_result' = "returned"
            /\ files_in_landing' = <<>>
            /\ bpc' = "idle"
       ELSE /\ bronze_log' = <<>>
            /\ bronze_result' = "running"
            /\ \E order \in Orders(DOMAIN landing) : files_in_landing' = order
            /\ bpc' = "file"
    /\ UNCHANGED <<landing, archive, bronze, drops, ingested>>

\* One per-file exception: caught by `except Exception`, logged, loop continues.
BronzeCatch_reraise(name) ==
    /\ bronze_log' = Append(bronze_log, [level |-> "error", msg |-> "error_processing", file |-> name])
    /\ bronze_result' = "raised"
    /\ bpc' = "idle"
BronzeCatch(name) ==
    /\ bronze_log' = Append(bronze_log, [level |-> "error", msg |-> "error_processing", file |-> name])
    /\ bronze_result' = bronze_result
    /\ bpc' = "file"

\* main(), lines 23-26: next loop iteration, open the workbook.
BronzeOpen ==
    /\ UNCHANGED <<serveVars, goldVars, silverVars>>
    /\ bpc = "file"
    /\ IF files_in_landing = <<>>
       THEN /\ bpc' = "idle"
            /\ bronze_result' = "returned"
            /\ UNCHANGED <<files_in_landing, file_name, sheet_idx, bronze_log>>
       ELSE /\ file_name' = Head(files_in_landing)
            /\ files_in_landing' = Tail(files_in_landing)
            /\ sheet_idx' = 1
            /\ IF landing[Head(files_in_landing)].corrupt
               THEN BronzeCatch(Head(files_in_landing))
               ELSE /\ bpc' = "sheet"
                    /\ UNCHANGED <<bronze_log, bronze_result>>
    /\ UNCHANGED <<landing, archive, bronze, bronze_runs, drops, ingested,
                   landing_at_start, bronze_at_start, archive_at_start>>

\* main(), lines 27-38: read one sheet, tag it, cast to str, write bronze_<sheet>.parquet.
BronzeSheet ==
    /\ UNCHANGED <<serveVars, goldVars, silverVars>>
    /\ bpc = "sheet"
    /\ LET wb == landing[file_name]
       IN IF sheet_idx > Len(wb.sheets)
          THEN /\ bpc' = "archive"
               /\ UNCHANGED <<bronze, ingested, sheet_idx, bronze_log, bronze_result>>
          ELSE LET sh == wb.sheets[sheet_idx]
               IN IF sh.ok
                  THEN /\ bronze' = Put(bronze, sh.name,
                                        BronzeFrame(sh.rows, file_name, sh.name, bronze_runs))
                       /\ ingested' = ingested \cup {<<file_name, sh.name>>}
                       /\ sheet_idx' = sheet_idx + 1
                       /\ UNCHANGED <<bpc, bronze_log, bronze_result>>
                  ELSE /\ BronzeCatch(file_name)
                       /\ bronze' = AfterSheetError(bronze, wb, sheet_idx)
                       /\ UNCHANGED <<ingested, sheet_idx>>
    /\ UNCHANGED <<landing, archive, files_in_landing, file_name, bronze_runs, drops,
                   landing_at_start, bronze_at_start, archive_at_start>>

\* main(), lines 40-48: remove a same-named archive entry, move the file.
BronzeArchive ==
    /\ UNCHANGED <<serveVars, goldVars, silverVars>>
    /\ bpc = "archive"
    /\ archive' = ArchiveReplace(archive, file_name, landing[file_name])
    /\ landing' = MoveOut(landing, file_name)
    /\ bronze_log' = Append(bronze_log, [level |-> "info", msg |-> "archived", file |-> file_name])
    /\ bpc' = "file"
    /\ UNCHANGED <<bronze, files_in_landing, file_name, sheet_idx, bronze_result,
                   bronze_runs, drops, ingested,
                   landing_at_start, bronze_at_start, archive_at_start>>

BronzeStopped ==
    /\ archive = EmptyDir
    /\ bpc = "idle"
    /\ files_in_landing = <<>>
    /\ file_name = ""
    /\ sheet_idx = 0
    /\ bronze_log = <<>>
    /\ bronze_result = "none"
    /\ bronze_runs = 0
    /\ drops = 0
    /\ ingested = {}
    /\ landing_at_start = EmptyDir
    /\ bronze_at_start = EmptyDir
    /\ archive_at_start = EmptyDir

BronzeRest == bronze = EmptyDir /\ BronzeStopped

BronzeIdle == landing = EmptyDir /\ BronzeRest

\* --------------------------------------------------- frames and file names
\* Frames and stored tables carry their column set and their rows.
Frame(cols, rows) == [columns |-> cols, rows |-> rows]

\* Silver-layer file names: <stem><year><tail>
AlunosName(y) == [stem |-> "alunos_", year |-> y, tail |-> "_clean.parquet"]
SilverName(y) == [stem |-> "silver_", year |-> y, tail |-> ".parquet"]

\* pd.concat(dataframes, ignore_index=True), files in the order glob returned them
RECURSIVE ConcatRows(_, _)
ConcatRows(dir, order) ==
    IF order = <<>> THEN <<>>
    ELSE dir[Head(order)].rows \o ConcatRows(dir, Tail(order))

\* ------------------------------------------------------------- make_silver
\* Columns modelled: RA, defasagem, ano_dados and the lineage metadata.  The
\* other canonical columns (fase, idade, indicators, ...) are taken to be
\* present and well-formed in every Bronze row.
UNKNOWN == NA                    \* batch_year "unknown"

\* re.search(r"\d{4}", ...) on a sheet name / on bronze_<sheet>.parquet
SheetYear(sheet) ==
    CASE sheet = "PEDE2022" -> 2022
      [] sheet = "PEDE2023" -> 2023
      [] sheet = "PEDE2024" -> 2024
      [] sheet = "PEDE2022_2023" -> 2022
      [] OTHER -> UNKNOWN

\* the years whose four digits occur somewhere in a sheet name
YearsShown(sheet) ==
    CASE sheet = "PEDE2022" -> {2022}
      [] sheet = "PEDE2023" -> {2023}
      [] sheet = "PEDE2024" -> {2024}
      [] sheet = "PEDE2022_2023" -> {2022, 2023}
      [] OTHER -> {}

IntLiterals == -2..9
\* clean_ra: "nan" is a non-null string; first embedded integer, else NaN
clean_ra(valor) ==
    IF \E n \in 0..9 : ToString(n) = valor
    THEN CHOOSE n \in 0..9 : ToString(n) = valor
    ELSE NA
\* int(str) as used by astype(int) on a string column; NA when it raises
ParseInt(valor) ==
    IF \E n \in IntLiterals : ToString(n) = valor
    THEN CHOOSE n \in IntLiterals : ToString(n) = valor
    ELSE NA

\* _extract_target_columns, _apply_global_cleaning and _validate_schema_pandera
\* on one Bronze row
SilverRow(b) ==
    [RA |-> clean_ra(b.RA),
     defasagem |-> ParseInt(b.Defasagem),
     ano_dados |-> SheetYear(b.metadata_sheet),
     metadata_source |-> b.metadata_source,
     metadata_sheet |-> b.metadata_sheet]

\* Does the assembly line raise on this Bronze frame?  An empty frame fails in
\* `.iloc[0]` (IndexError); astype(int) raises on a NaN RA, on a defasagem that
\* is not an integer literal, and on a sheet name without a 4-digit year.
BatchRaises(frame) ==
    \/ frame = <<>>
    \/ \E i \in 1..Len(frame) :
          \/ clean_ra(frame[i].RA) = NA
          \/ ParseInt(frame[i].Defasagem) = NA
          \/ SheetYear(frame[i].metadata_sheet) = UNKNOWN

ProcessBatch(frame) == [i \in 1..Len(frame) |-> SilverRow(frame[i])]

\* glob(SILVER_DIR/"silver_*.parquet")
SilverGlob(dir) == {n \in DOMAIN dir : n.stem = "silver_" /\ n.tail = ".parquet"}

\* `batch_year not in str(df_historical_reference.get(metadata_sheet, ""))`:
\* a substring test on the printed column, true when the digits of the year
\* occur in a sheet name it shows (for a baseline short enough for its repr
\* to show every row and no row count)
YearInReference(year, ref) ==
    year # UNKNOWN /\ \E i \in 1..Len(ref) : year \in YearsShown(ref[i].metadata_sheet)

UpdateReference(ref, year, df) ==
    IF ref = <<>> THEN df
    ELSE IF YearInReference(year, ref) THEN ref ELSE ref \o df

\* `os.path.exists(expected_silver_path)`
PartitionExists_never(dir, path) == FALSE
PartitionExists(dir, path) == path \in DOMAIN dir

\* `is_cold_start = df_historical_reference.empty`
IsColdStart_never(ref) == FALSE
IsColdStart(ref) == ref = <<>>

\* schema.validate raises SchemaError: metadata_source and metadata_sheet are
\* non-nullable str columns; RA is nullable and untyped.  metadata_source is
\* null when the Bronze file has no such column (`df.get(..., pd.NA)`).
SchemaFails(df) ==
    \E i \in 1..Len(df) :
        df[i].metadata_source = NULLSTR \/ df[i].metadata_sheet = NULLSTR

\* data/02_silver after a SchemaError: the except clause re-raises, to_parquet
\* is not reached
OnSchemaError_partial(dir, path, frame) == Put(dir, path, frame)
OnSchemaError(dir, path, frame) == dir

\* outcomes of the drift test suite: a test FAILed, none did, or the results
\* hold no "tests" key (KeyError)
DriftOutcomes == {"drift", "stable", "no_tests"}
DriftLog(outcome, year) ==
    [level |-> IF outcome = "drift" THEN "warning" ELSE "info",
     msg |-> IF outcome = "drift" THEN "drift_detected"
             ELSE IF outcome = "stable" THEN "stable" ELSE "report_generated",
     year |-> year]

\* data/02_silver after the drift check: to_parquet follows it unconditionally
PersistAfterDrift_gated(dir, path, frame, outcome) ==
    IF outcome = "drift" THEN dir ELSE Put(dir, path, frame)
PersistAfterDrift(dir, path, frame, outcome) == Put(dir, path, frame)

\* data/02_silver after an exception leaves the assembly line and ends the
\* run: main has no handler that removes what the run wrote before
OnAbort_rollback(dir, at_start) == at_start
OnAbort(dir, at_start) == dir

\* main(), lines 311-325: glob Bronze, load the historical baseline.
SilverStart ==
    /\ UNCHANGED <<serveVars, bronzeVars, goldVars, fnVars>>
    /\ spc = "idle"
    /\ silver_runs < MaxSilverRuns
    /\ silver_runs' = silver_runs + 1
    /\ silver_prev_result' = silver_result
    /\ silver_at_start' = silver_dir
    /\ files_read' = {}
    /\ IF DOMAIN bronze = {}
       THEN /\ silver_log' = <<[level |-> "info", msg |-> "idle", year |-> UNKNOWN]>>
            /\ silver_result' = "returned"
            /\ spc' = "idle"
            /\ UNCHANGED <<bronze_files, df_historical_reference, is_cold_start>>
       ELSE /\ \E order \in Orders(SilverGlob(silver_dir)) :
                 /\ df_historical_reference' = ConcatRows(silver_dir, order)
                 /\ is_cold_start' = IsColdStart(ConcatRows(silver_dir, order))
            /\ \E order \in Orders(DOMAIN bronze) : bronze_files' = order
            /\ silver_log' = <<>>
            /\ silver_result' = "running"
            /\ spc' = "file"
    /\ UNCHANGED reports

\* main(), lines 327-386: one iteration of the file loop, or the end of the run.
SilverFile ==
    /\ UNCHANGED <<serveVars, bronzeVars, silver_runs, silver_prev_result, silver_at_start, fnVars>>
    /\ spc = "file"
    /\ IF bronze_files = <<>>
       THEN /\ spc' = "idle"
            /\ silver_result' = "returned"
            /\ silver_log' = Append(silver_log, [level |-> "info", msg |-> "completed", year |-> UNKNOWN])
            /\ UNCHANGED <<goldVars, bronze_files, df_historical_reference, is_cold_start,
                           reports, files_read>>
       ELSE LET sheet == Head(bronze_files)
                batch_year == SheetYear(sheet)
                expected_silver_path == SilverName(batch_year)
            IN /\ bronze_files' = Tail(bronze_files)
               /\ UNCHANGED <<gpc, df_silver, df_gold, feature_store, train_data,
                              aluno_features, gold_log, gold_result, online_before,
                              is_cold_start>>
               /\ IF PartitionExists(silver_dir, expected_silver_path)
                  THEN /\ silver_log' = Append(silver_log, [level |-> "info", msg |-> "skipping", year |-> batch_year])
                       /\ UNCHANGED <<silver_dir, spc, silver_result, df_historical_reference,
                                      reports, files_read>>
                  ELSE /\ files_read' = files_read \cup {sheet}
                       /\ IF BatchRaises(bronze[sheet])
                          THEN /\ spc' = "idle"
                               /\ silver_result' = "raised"
                               /\ silver_log' = silver_log
                               /\ silver_dir' = OnAbort(silver_dir, silver_at_start)
                               /\ UNCHANGED <<df_historical_reference, reports>>
                          ELSE LET df_clean == ProcessBatch(bronze[sheet])
                                   df_validated == Frame(DOMAIN SilverRow(bronze[sheet][1]), df_clean)
                               IN IF SchemaFails(df_clean)
                                  THEN /\ spc' = "idle"
                                       /\ silver_result' = "raised"
                                       /\ silver_log' = Append(silver_log,
                                              [level |-> "error", msg |-> "schema_validation_error", year |-> batch_year])
                                       /\ silver_dir' = OnSchemaError(silver_dir, expected_silver_path, df_validated)
                                       /\ UNCHANGED <<df_historical_reference, reports>>
                                  ELSE /\ IF is_cold_start
                                          THEN /\ silver_log' = Append(silver_log, [level |-> "info", msg |-> "saved", year |-> batch_year])
                                               /\ silver_dir' = Put(silver_dir, expected_silver_path, df_validated)
                                               /\ UNCHANGED reports
                                          ELSE \E outcome \in DriftOutcomes :
                                               /\ reports' = reports \cup {batch_year}
                                               /\ silver_log' = silver_log \o
                                                    <<DriftLog(outcome, batch_year),
                                                      [level |-> "info", msg |-> "saved", year |-> batch_year]>>
                                               /\ silver_dir' = PersistAfterDrift(silver_dir, expected_silver_path,
                                                                                  df_validated, outcome)
                                       /\ df_historical_reference' =
                                             UpdateReference(df_historical_reference, batch_year, df_clean)
                                       /\ UNCHANGED <<spc, silver_result>>

SilverRest ==
    /\ spc = "idle"
    /\ bronze_files = <<>>
    /\ df_historical_reference = <<>>
    /\ is_cold_start = FALSE
    /\ silver_log = <<>>
    /\ silver_result = "none"
    /\ reports = {}
    /\ silver_runs = 0
    /\ silver_prev_result = "none"
    /\ silver_at_start = EmptyDir
    /\ files_read = {}

FnIdle == fn_name = "none" /\ fn_in = <<>> /\ fn_out = <<>> /\ fn_pc = "done"

SilverIdle == SilverRest /\ FnIdle

\* ------------------------------------------- make_silver: single functions
\* A frame handed to one function carries its columns in order; a row maps
\* each column to a cell.
Returned(v) == [raised |-> FALSE, value |-> v]
Raised(e) == [raised |-> TRUE, value |-> e]
SelectCols(seq, S) == SelectSeq(seq, LAMBDA c : c \in S)

COLUMNS_TO_KEEP ==
    <<"RA", "fase", "idade", "genero", "anos_na_instituicao", "instituicao",
      "pedra_atual", "inde_atual", "indicador_auto_avaliacao", "indicador_engajamento",
      "indicador_psicossocial", "indicador_aprendizagem", "indicador_ponto_virada",
      "indicador_adequacao_nivel", "indicador_psico_pedagogico", "defasagem",
      "ano_dados", "metadata_source", "metadata_sheet">>

\* `for col in COLUMNS_TO_KEEP: if col not in df.columns: df[col] = pd.NA`
InjectMissing(df) ==
    LET missing == SelectCols(COLUMNS_TO_KEEP, Range(COLUMNS_TO_KEEP) \ Range(df.columns))
    IN [columns |-> df.columns \o missing,
        rows |-> [i \in 1..Len(df.rows) |->
                    [c \in Range(df.columns) \cup Range(missing) |->
                        IF c \in Range(df.columns) THEN df.rows[i][c] ELSE NULLSTR]]]

\* `df = df[COLUMNS_TO_KEEP].copy()`
RestrictColumns_keep_all(df) == df
RestrictColumns(df) ==
    [columns |-> COLUMNS_TO_KEEP,
     rows |-> [i \in 1..Len(df.rows) |-> [c \in Range(COLUMNS_TO_KEEP) |-> df.rows[i][c]]]]

\* _validate_schema_pandera: the str coercion of the metadata columns keeps
\* nulls null, which the non-nullable columns then reject
validate_schema_pandera(df) ==
    LET restricted == RestrictColumns(InjectMissing(df))
    IN IF SchemaFails(restricted.rows) THEN Raised("SchemaError") ELSE Returned(restricted)

ValidateColumns == {"RA", "idade", "ano_ingresso", "metadata_source", "metadata_sheet"}
ValidateCells == {"x", NULLSTR}
ValidateInputs(maxCols, maxRows) ==
    UNION {{[columns |-> cols, rows |-> rows] :
               rows \in SeqsUpTo([Range(cols) -> ValidateCells], maxRows)}
           : cols \in {c \in SeqsUpTo(ValidateColumns, maxCols) :
                          \A i, j \in 1..Len(c) : c[i] = c[j] => i = j}}

\* A normalised header is a base name, alone or followed by "_" and a suffix.
Plain(base) == [base |-> base, suffix |-> "none"]
Suffixed(base, suffix) == [base |-> base, suffix |-> suffix]

\* `unidecode(str(c).strip().lower()).replace(" ", "_")` on the headers used
Normalise(header) ==
    CASE header = "RA" -> Plain("ra")
      [] header = "Idade" -> Plain("idade")
      [] header = " Idade 23 " -> Suffixed("idade", "23")
      [] header = "Idade 2023" -> Suffixed("idade", "2023")
      [] header = "Idade 22" -> Suffixed("idade", "22")
      [] header = "INDE" -> Plain("inde")
      [] header = "INDE 2023" -> Suffixed("inde", "2023")
      [] header = "Defas" -> Plain("defas")
      [] header = "Defasagem" -> Plain("defasagem")
      [] header = "metadata_sheet" -> Plain("metadata_sheet")
      [] header = "metadata_source" -> Plain("metadata_source")

\* `re.search(r"(\d{2})(\d{2})", metadata_sheet)`: group(0) and group(2), or "" and ""
year_full(sheet) ==
    CASE sheet = "PEDE2022" -> "2022" [] sheet = "PEDE2023" -> "2023"
      [] sheet = "PEDE2024" -> "2024" [] OTHER -> ""
year_short(sheet) ==
    CASE sheet = "PEDE2022" -> "22" [] sheet = "PEDE2023" -> "23"
      [] sheet = "PEDE2024" -> "24" [] OTHER -> ""

\* the candidate lists of _extract_target_columns, in the order they are written
possible_names_exact_first(field, yf, ys) ==
    CASE field = "RA" -> <<Plain("ra")>>
      [] field = "fase" -> <<Plain("fase")>>
      [] field = "genero" -> <<Plain("genero")>>
      [] field = "ano_ingresso" -> <<Plain("ano_ingresso")>>
      [] field = "instituicao" -> <<Plain("instituicao_de_ensino"), Plain("instituicao")>>
      [] field = "defasagem" -> <<Plain("defasagem"), Plain("defas")>>
      [] field = "idade" -> <<Plain("idade"), Suffixed("idade", yf), Suffixed("idade", ys)>>
      [] field = "pedra_atual" -> <<Plain("pedra"), Suffixed("pedra", yf), Suffixed("pedra", ys)>>
      [] field = "inde_atual" -> <<Plain("inde"), Suffixed("inde", yf), Suffixed("inde", ys)>>
      [] field = "indicador_auto_avaliacao" -> <<Plain("iaa")>>
      [] field = "indicador_engajamento" -> <<Plain("ieg")>>
      [] field = "indicador_psicossocial" -> <<Plain("ips")>>
      [] field = "indicador_aprendizagem" -> <<Plain("ida")>>
      [] field = "indicador_ponto_virada" -> <<Plain("ipv")>>
      [] field = "indicador_adequacao_nivel" -> <<Plain("ian")>>
      [] field = "indicador_psico_pedagogico" -> <<Plain("ipp")>>
possible_names(field, yf, ys) ==
    CASE field = "RA" -> <<Plain("ra")>>
      [] field = "fase" -> <<Plain("fase")>>
      [] field = "genero" -> <<Plain("genero")>>
      [] field = "ano_ingresso" -> <<Plain("ano_ingresso")>>
      [] field = "instituicao" -> <<Plain("instituicao_de_ensino"), Plain("instituicao")>>
      [] field = "defasagem" -> <<Plain("defasagem"), Plain("defas")>>
      [] field = "idade" -> <<Suffixed("idade", yf), Suffixed("idade", ys), Plain("idade")>>
      [] field = "pedra_atual" -> <<Suffixed("pedra", yf), Suffixed("pedra", ys), Plain("pedra")>>
      [] field = "inde_atual" -> <<Suffixed("inde", yf), Suffixed("inde", ys), Plain("inde")>>
      [] field = "indicador_auto_avaliacao" -> <<Plain("iaa")>>
      [] field = "indicador_engajamento" -> <<Plain("ieg")>>
      [] field = "indicador_psicossocial" -> <<Plain("ips")>>
      [] field = "indicador_aprendizagem" -> <<Plain("ida")>>
      [] field = "indicador_ponto_virada" -> <<Plain("ipv")>>
      [] field = "indicador_adequacao_nivel" -> <<Plain("ian")>>
      [] field = "indicador_psico_pedagogico" -> <<Plain("ipp")>>

ExtractedFields ==
    {"RA", "fase", "genero", "ano_ingresso", "instituicao", "defasagem", "idade",
     "pedra_atual", "inde_atual", "indicador_auto_avaliacao", "indicador_engajamento",
     "indicador_psicossocial", "indicador_aprendizagem", "indicador_ponto_virada",
     "indicador_adequacao_nivel", "indicador_psico_pedagogico"}

\* _find_and_assign on a frame whose rows map normalised headers to cells: the
\* column of the first name that is a header, else a null per row
RECURSIVE find_and_assign(_, _)
find_and_assign(df, names) ==
    IF names = <<>> THEN [i \in 1..Len(df.rows) |-> NULLSTR]
    ELSE IF Head(names) \in df.columns
         THEN [i \in 1..Len(df.rows) |-> df.rows[i][Head(names)]]
         ELSE find_and_assign(df, Tail(names))

\* `df.get(column, pd.NA)` assigned to a column of `extracted`
GetOrNull(df, name) ==
    [i \in 1..Len(df.rows) |-> IF name \in df.columns THEN df.rows[i][name] ELSE NULLSTR]

\* _extract_target_columns on a frame with raw headers (a set: no two of them
\* normalise to one name)
extract_target_columns(raw) ==
    LET df == [columns |-> {Normalise(h) : h \in raw.columns},
               rows |-> [i \in 1..Len(raw.rows) |->
                           [c \in {Normalise(h) : h \in raw.columns} |->
                               raw.rows[i][CHOOSE h \in raw.columns : Normalise(h) = c]]]]
    IN IF Plain("metadata_sheet") \notin df.columns THEN Raised("AttributeError")
       ELSE IF df.rows = <<>> THEN Raised("IndexError")
       ELSE LET metadata_sheet == df.rows[1][Plain("metadata_sheet")]
                yf == year_full(metadata_sheet)
                ys == year_short(metadata_sheet)
            IN Returned([i \in 1..Len(df.rows) |->
                   [f \in ExtractedFields \cup {"metadata_sheet", "metadata_source"} |->
                       IF f \in ExtractedFields
                       THEN find_and_assign(df, possible_names(f, yf, ys))[i]
                       ELSE GetOrNull(df, Plain(f))[i]]])

ExtractHeaders ==
    {"RA", "Idade", " Idade 23 ", "Idade 2023", "Idade 22", "INDE", "INDE 2023",
     "Defas", "Defasagem", "metadata_source"}
ExtractSheets == {"PEDE2022", "PEDE2023", "Plan1"}
\* each cell holds the raw header of its column, the sheet column the sheet name
ExtractInputs(maxRows) ==
    {[columns |-> hs, rows |-> [i \in 1..n |-> [h \in hs |-> h]]] :
        hs \in SUBSET ExtractHeaders, n \in 0..maxRows}
    \cup {[columns |-> hs \cup {"metadata_sheet"},
           rows |-> [i \in 1..n |->
                       [h \in hs \cup {"metadata_sheet"} |->
                           IF h = "metadata_sheet" THEN sheet ELSE h]]] :
             hs \in SUBSET ExtractHeaders, n \in 0..maxRows, sheet \in ExtractSheets}

CallExtract ==
    /\ fn_pc = "call" /\ fn_name = "_extract_target_columns"
    /\ fn_out' = extract_target_columns(fn_in)
    /\ fn_pc' = "done"
    /\ UNCHANGED <<fn_name, fn_in>>
    /\ UNCHANGED <<serveVars, bronzeVars, goldVars, spc, bronze_files, df_historical_reference,
                   is_cold_start, silver_log, silver_result, reports, silver_runs,
                   silver_prev_result, silver_at_start, files_read>>

\* Indicator cells.  Numbers are fixed-point, in units of 0.0001; NA is NaN.
\* A cell is a float, a string (val: the float it parses to, NA when it does
\* not parse or spells "nan"), or pd.NA.
Num(v) == [kind |-> "float", val |-> v]
Str(v) == [kind |-> "str", val |-> v]
NullCell == [kind |-> "null", val |-> NA]
isna(c) == c.kind = "null" \/ (c.kind = "float" /\ c.val = NA)
\* pd.to_numeric(errors="coerce") on one cell
to_numeric(c) == Num(c.val)

\* Series.round(3): to the nearest 0.001, halves to the even neighbour
Round3(v) ==
    LET q == v \div 10
        r == v % 10
    IN 10 * (IF r < 5 THEN q ELSE IF r > 5 THEN q + 1 ELSE IF q % 2 = 0 THEN q ELSE q + 1)

\* IPP_WEIGHTS, in tenths
IPP_WEIGHTS_equal ==
    [IAN |-> 1, IDA |-> 1, IEG |-> 1, IAA |-> 1, IPS |-> 1, IPV |-> 1, BASE_DIVISOR |-> 1]
IPP_WEIGHTS ==
    [IAN |-> 1, IDA |-> 2, IEG |-> 2, IAA |-> 1, IPS |-> 1, IPV |-> 2, BASE_DIVISOR |-> 1]

cols_to_numeric ==
    {"inde_atual", "indicador_adequacao_nivel", "indicador_aprendizagem",
     "indicador_engajamento", "indicador_auto_avaliacao", "indicador_psicossocial",
     "indicador_ponto_virada"}
IppColumns == cols_to_numeric \cup {"indicador_psico_pedagogico"}

\* the base formula on one row of numeric cells; NaN operands give NaN
BaseFormula(row) ==
    IF \E c \in cols_to_numeric : row[c].val = NA THEN Num(NA)
    ELSE LET weighted ==
                 row["indicador_adequacao_nivel"].val * IPP_WEIGHTS.IAN
                 + row["indicador_aprendizagem"].val * IPP_WEIGHTS.IDA
                 + row["indicador_engajamento"].val * IPP_WEIGHTS.IEG
                 + row["indicador_auto_avaliacao"].val * IPP_WEIGHTS.IAA
                 + row["indicador_psicossocial"].val * IPP_WEIGHTS.IPS
                 + row["indicador_ponto_virada"].val * IPP_WEIGHTS.IPV
         IN Num(Round3((10 * row["inde_atual"].val - weighted) \div IPP_WEIGHTS.BASE_DIVISOR))

\* `df[FN.IPP].isna().all()`
IppMissing_any(rows) == \E i \in 1..Len(rows) : isna(rows[i]["indicador_psico_pedagogico"])
IppMissing(rows) == \A i \in 1..Len(rows) : isna(rows[i]["indicador_psico_pedagogico"])

\* _calculate_missing_ipp on the rows of a frame
calculate_missing_ipp(rows) ==
    IF IppMissing(rows)
    THEN [i \in 1..Len(rows) |->
            LET numeric == [c \in IppColumns |->
                               IF c \in cols_to_numeric THEN to_numeric(rows[i][c])
                               ELSE rows[i][c]]
            IN [numeric EXCEPT !["indicador_psico_pedagogico"] = BaseFormula(numeric)]]
    ELSE rows

\* rows of the tests and of a Bronze sheet (strings), with and without nulls
IppIndicators ==
    {[indicador_adequacao_nivel |-> Num(70000), indicador_aprendizagem |-> Num(80000),
      indicador_engajamento |-> Num(90000), indicador_auto_avaliacao |-> Num(80000),
      indicador_psicossocial |-> Num(70000), indicador_ponto_virada |-> Num(80000)],
     [indicador_adequacao_nivel |-> Str(50000), indicador_aprendizagem |-> Str(60000),
      indicador_engajamento |-> Str(80000), indicador_auto_avaliacao |-> Str(70000),
      indicador_psicossocial |-> Str(60000), indicador_ponto_virada |-> Str(70000)],
     [indicador_adequacao_nivel |-> Num(70000), indicador_aprendizagem |-> Num(80000),
      indicador_engajamento |-> Num(90000), indicador_auto_avaliacao |-> NullCell,
      indicador_psicossocial |-> Str(NA), indicador_ponto_virada |-> Num(80000)],
     [indicador_adequacao_nivel |-> Str(100000), indicador_aprendizagem |-> Str(66667),
      indicador_engajamento |-> Str(83333), indicador_auto_avaliacao |-> Str(91667),
      indicador_psicossocial |-> Str(75000), indicador_ponto_virada |-> Str(72222)]}
IppIndes == {Num(80000), Num(75000), Str(71234)}
IppValues == {NullCell, Num(99900), Str(NA)}
IppRows ==
    {[c \in IppColumns |->
        IF c = "inde_atual" THEN inde
        ELSE IF c = "indicador_psico_pedagogico" THEN ipp ELSE ind[c]] :
        ind \in IppIndicators, inde \in IppIndes, ipp \in IppValues}
IppInputs(maxRows) == SeqsUpTo(IppRows, maxRows)

CallCalculateIpp ==
    /\ fn_pc = "call" /\ fn_name = "_calculate_missing_ipp"
    /\ fn_out' = Returned(calculate_missing_ipp(fn_in))
    /\ fn_pc' = "done"
    /\ UNCHANGED <<fn_name, fn_in>>
    /\ UNCHANGED <<serveVars, bronzeVars, goldVars, spc, bronze_files, df_historical_reference,
                   is_cold_start, silver_log, silver_result, reports, silver_runs,
                   silver_prev_result, silver_at_start, files_read>>

\* Values handed to clean_idade: null, an int, or a string of one of the
\* shapes the function tells apart.  n is the day of a "1900-01-<n> 00:00:00"
\* string, or the number in tenths.
NullValue == [py |-> "null", shape |-> "null", n |-> 0]
IntValue(k) == [py |-> "int", shape |-> "number", n |-> 10 * k]
DateString(d) == [py |-> "str", shape |-> "1900-01-", n |-> d]
NumberString(t) == [py |-> "str", shape |-> "number", n |-> t]
TextString == [py |-> "str", shape |-> "text", n |-> 0]        \* "Dezoito"
NanString == [py |-> "str", shape |-> "nan", n |-> 0]          \* "nan"
InfString == [py |-> "str", shape |-> "inf", n |-> 0]          \* "inf"

\* int(float(...)): truncation towards zero
Trunc(t) == IF t >= 0 THEN t \div 10 ELSE -((-t) \div 10)

\* clean_idade: pd.to_datetime raises ValueError on a day outside the month;
\* int(float("nan")) raises ValueError, int(float("inf")) OverflowError, which
\* the except clause does not name
clean_idade(valor) ==
    IF valor.py = "null" THEN Returned(valor)
    ELSE IF valor.shape = "1900-01-"
    THEN IF valor.n \in 1..31 THEN Returned(IntValue(valor.n)) ELSE Returned(NullValue)
    ELSE CASE valor.shape = "number" -> Returned(IntValue(Trunc(valor.n)))
           [] valor.shape = "inf" -> Raised("OverflowError")
           [] OTHER -> Returned(valor)

IdadeValues ==
    {NullValue, IntValue(20), TextString, NanString, InfString}
    \cup {DateString(d) : d \in {1, 15, 31, 45}}
    \cup {NumberString(t) : t \in {180, 189, 0, -37}}

CallCleanIdade ==
    /\ fn_pc = "call" /\ fn_name = "clean_idade"
    /\ fn_out' = clean_idade(fn_in)
    /\ fn_pc' = "done"
    /\ UNCHANGED <<fn_name, fn_in>>
    /\ UNCHANGED <<serveVars, bronzeVars, goldVars, spc, bronze_files, df_historical_reference,
                   is_cold_start, silver_log, silver_result, reports, silver_runs,
                   silver_prev_result, silver_at_start, files_read>>

CallValidate ==
    /\ fn_pc = "call" /\ fn_name = "_validate_schema_pandera"
    /\ fn_out' = validate_schema_pandera(fn_in)
    /\ fn_pc' = "done"
    /\ UNCHANGED <<fn_name, fn_in>>
    /\ UNCHANGED <<serveVars, bronzeVars, goldVars, spc, bronze_files, df_historical_reference,
                   is_cold_start, silver_log, silver_result, reports, silver_runs,
                   silver_prev_result, silver_at_start, files_read>>

\* --------------------------------------------------------------- make_gold
NoTable == [exists |-> FALSE, columns |-> {}, rows |-> <<>>]
Stored(df) == [exists |-> TRUE, columns |-> df.columns, rows |-> df.rows]

RAs == {1, 2}                    \* student ids; Silver casts RA to int, so never null
Years == {2022, 2023, 2024}
Defasagens == {-1, 0}
GoldInputColumns == {"RA", "ano_dados", "defasagem"}
TARGET_DEFASAGEM == "target_defasagem"

GoldInputRows == [RA : RAs, ano_dados : Years, defasagem : Defasagens]
GoldInputFrames == {Frame(GoldInputColumns, rows) : rows \in SeqsUpTo(GoldInputRows, MaxRows)}

GoldRunYears == {2022, 2023}
GoldInputNames == {AlunosName(y) : y \in GoldRunYears}
\* contents of one yearly file: any students, the year of the file name
FileFrames(n) ==
    {Frame(GoldInputColumns, rows) :
        rows \in SeqsUpTo([RA : RAs, ano_dados : {n.year}, defasagem : {n.year - 2023}],
                          MaxFileRows)}

\* silver_dir.glob("alunos_*_clean.parquet")
GoldGlob(dir) == {n \in DOMAIN dir : n.stem = "alunos_" /\ n.tail = "_clean.parquet"}

ConcatFrames(dir, order) ==
    Frame(UNION {dir[order[i]].columns : i \in 1..Len(order)}, ConcatRows(dir, order))

WithColumn(r, c, v) == [x \in (DOMAIN r) \cup {c} |-> IF x = c THEN v ELSE r[x]]
DropColumn(r, c) == [x \in (DOMAIN r) \ {c} |-> r[x]]

\* df.sort_values(by=[RA, ano_dados]): stable, ascending
SortKey(a, b) == a.RA < b.RA \/ (a.RA = b.RA /\ a.ano_dados < b.ano_dados)
SortRank(rows, i) ==
    1 + Cardinality({j \in 1..Len(rows) :
                        \/ SortKey(rows[j], rows[i])
                        \/ (~SortKey(rows[i], rows[j]) /\ j < i)})
sort_values(rows) ==
    [p \in 1..Len(rows) |-> rows[CHOOSE i \in 1..Len(rows) : SortRank(rows, i) = p]]

\* df.groupby(RA)[defasagem].shift(-1), value for row i
groupby_shift_ungrouped(rows, i) ==
    IF i < Len(rows) THEN rows[i + 1].defasagem ELSE NA
groupby_shift(rows, i) ==
    LET later == {j \in (i + 1)..Len(rows) : rows[j].RA = rows[i].RA}
    IN IF later = {} THEN NA
       ELSE rows[CHOOSE j \in later : \A k \in later : j <= k].defasagem

engineer_features_and_target(df) ==
    LET sorted == sort_values(df.rows)
    IN Frame(df.columns \cup {TARGET_DEFASAGEM},
             [i \in 1..Len(sorted) |->
                 WithColumn(sorted[i], TARGET_DEFASAGEM, groupby_shift(sorted, i))])

\* rows of `rows` whose index is in `keep`, in their order
KeepRows(rows, keep) ==
    [k \in 1..Cardinality(keep) |->
        rows[CHOOSE i \in keep : Cardinality({j \in keep : j < i}) = k - 1]]

\* df.dropna(subset=[col])
dropna_other_column(rows, col) == KeepRows(rows, {i \in 1..Len(rows) : rows[i].defasagem # NA})
dropna(rows, col) == KeepRows(rows, {i \in 1..Len(rows) : rows[i][col] # NA})

\* df.drop_duplicates(subset=[RA], keep='last')
drop_duplicates_keep_first(rows) ==
    KeepRows(rows, {i \in 1..Len(rows) : \A j \in 1..(i - 1) : rows[j].RA # rows[i].RA})
drop_duplicates(rows) ==
    KeepRows(rows, {i \in 1..Len(rows) : \A j \in (i + 1)..Len(rows) : rows[j].RA # rows[i].RA})

\* save_online_store, lines 84-88: latest snapshot without the target column
OnlineSnapshot_with_target(df) == Frame(df.columns, drop_duplicates(df.rows))
OnlineSnapshot(df) ==
    LET latest == drop_duplicates(df.rows)
    IN IF TARGET_DEFASAGEM \in df.columns
       THEN Frame(df.columns \ {TARGET_DEFASAGEM},
                  [i \in 1..Len(latest) |-> DropColumn(latest[i], TARGET_DEFASAGEM)])
       ELSE Frame(df.columns, latest)

\* df.to_sql("aluno_features", conn, if_exists="replace", index=False)
to_sql_append(table, df) ==
    IF table.exists
    THEN [exists |-> TRUE, columns |-> table.columns, rows |-> table.rows \o df.rows]
    ELSE Stored(df)
to_sql(table, df) == Stored(df)

StudentIds(rows) == {rows[i].RA : i \in 1..Len(rows)}

\* main(), lines 107-111 and 125-126: load_silver_data; FileNotFoundError when
\* nothing matches, caught by main's `except Exception` and logged.
GoldStart ==
    /\ UNCHANGED <<serveVars, bronzeVars, silverVars>>
    /\ gpc = "idle"
    /\ online_before' = StudentIds(aluno_features.rows)
    /\ IF GoldGlob(silver_dir) = {}
       THEN /\ gold_log' = <<[level |-> "error", msg |-> "pipeline_failed_no_parquet"]>>
            /\ gold_result' = "failed"
            /\ gpc' = "idle"
            /\ UNCHANGED df_silver
       ELSE /\ \E order \in Orders(GoldGlob(silver_dir)) :
                 df_silver' = ConcatFrames(silver_dir, order)
            /\ gold_log' = <<>>
            /\ gold_result' = "running"
            /\ gpc' = "loaded"
    /\ UNCHANGED <<silver_dir, df_gold, feature_store, train_data, aluno_features>>

\* main(), line 114
GoldEngineer ==
    /\ UNCHANGED <<serveVars, bronzeVars, silverVars>>
    /\ gpc = "loaded"
    /\ df_gold' = engineer_features_and_target(df_silver)
    /\ gpc' = "engineered"
    /\ UNCHANGED <<silver_dir, df_silver, feature_store, train_data, aluno_features,
                   gold_log, gold_result, online_before>>

\* main(), line 117: save_offline_store
GoldSaveOffline ==
    /\ UNCHANGED <<serveVars, bronzeVars, silverVars>>
    /\ gpc = "engineered"
    /\ feature_store' = Stored(df_gold)
    /\ train_data' = Stored(Frame(df_gold.columns, dropna(df_gold.rows, TARGET_DEFASAGEM)))
    /\ gpc' = "offline_saved"
    /\ UNCHANGED <<silver_dir, df_silver, df_gold, aluno_features,
                   gold_log, gold_result, online_before>>

\* main(), lines 120-123: save_online_store, then the completion message
GoldSaveOnline ==
    /\ UNCHANGED <<serveVars, bronzeVars, silverVars>>
    /\ gpc = "offline_saved"
    /\ aluno_features' = to_sql(aluno_features, OnlineSnapshot(df_gold))
    /\ gold_log' = Append(gold_log, [level |-> "info", msg |-> "online_store_updated"])
    /\ gold_result' = "ok"
    /\ gpc' = "idle"
    /\ UNCHANGED <<silver_dir, df_silver, df_gold, feature_store, train_data, online_before>>

\* main(), lines 125-126: `except Exception` logs "Pipeline failed" and main
\* returns
GoldCatch_reraise(log) ==
    [log |-> Append(log, [level |-> "error", msg |-> "pipeline_failed"]), result |-> "raised"]
GoldCatch(log) ==
    [log |-> Append(log, [level |-> "error", msg |-> "pipeline_failed"]), result |-> "failed"]

\* load_silver_data, line 31: pd.read_parquet raises on a file that matched
GoldLoadFails ==
    /\ UNCHANGED <<serveVars, bronzeVars, silverVars>>
    /\ gpc = "idle"
    /\ GoldGlob(silver_dir) # {}
    /\ online_before' = StudentIds(aluno_features.rows)
    /\ gold_log' = GoldCatch(<<>>).log
    /\ gold_result' = GoldCatch(<<>>).result
    /\ UNCHANGED <<silver_dir, gpc, df_silver, df_gold, feature_store, train_data, aluno_features>>

\* save_offline_store raises: in mkdir or the first to_parquet (nothing is
\* written), or in the second to_parquet (feature_store.parquet is written)
GoldOfflineFails ==
    /\ UNCHANGED <<serveVars, bronzeVars, silverVars>>
    /\ gpc = "engineered"
    /\ feature_store' \in {feature_store, Stored(df_gold)}
    /\ gold_log' = GoldCatch(gold_log).log
    /\ gold_result' = GoldCatch(gold_log).result
    /\ gpc' = "idle"
    /\ UNCHANGED <<silver_dir, df_silver, df_gold, train_data, aluno_features, online_before>>

\* save_online_store, lines 90-103: connect or to_sql raises; the function's
\* own except clause logs the failure and main goes on to its completion
\* message.  The table is as before, dropped, or recreated without rows.
GoldOnlineFails ==
    /\ UNCHANGED <<serveVars, bronzeVars, silverVars>>
    /\ gpc = "offline_saved"
    /\ aluno_features' \in {aluno_features, NoTable,
                            Stored(Frame(OnlineSnapshot(df_gold).columns, <<>>))}
    /\ gold_log' = gold_log \o <<[level |-> "error", msg |-> "online_store_failed"],
                                 [level |-> "info", msg |-> "completed"]>>
    /\ gold_result' = "ok"
    /\ gpc' = "idle"
    /\ UNCHANGED <<silver_dir, df_silver, df_gold, feature_store, train_data, online_before>>

\* The Silver layer changes between Gold runs: a file is written or removed.
SilverDirChanges ==
    /\ UNCHANGED <<serveVars, bronzeVars, silverVars>>
    /\ gpc = "idle"
    /\ \E n \in GoldInputNames :
          \/ \E f \in FileFrames(n) : silver_dir' = Put(silver_dir, n, f)
          \/ n \in DOMAIN silver_dir /\ silver_dir' = Del(silver_dir, n)
    /\ UNCHANGED <<gpc, df_silver, df_gold, feature_store, train_data, aluno_features,
                   gold_log, gold_result, online_before>>

GoldRest ==
    /\ gpc = "idle"
    /\ df_silver = Frame({}, <<>>)
    /\ df_gold = Frame({}, <<>>)
    /\ feature_store = NoTable
    /\ train_data = NoTable
    /\ aluno_features = NoTable
    /\ gold_log = <<>>
    /\ gold_result = "none"
    /\ online_before = {}

GoldIdle == silver_dir = EmptyDir /\ GoldRest

\* ----------------------------------------------------- ml_preprocessing
\* A lagging value is held as a whole number of halves (-3 stands for -1.5),
\* or is NaN (NA); every comparison with NaN is false.
Halves(y) == 2 * y
LaggingValues == (Halves(-3)..Halves(2)) \cup {NA}

create_target_class_strict(y) ==
    IF y # NA /\ y < Halves(-2) THEN 0
    ELSE IF y # NA /\ y = Halves(-1) THEN 1
    ELSE 2
create_target_class(y) ==
    IF y # NA /\ y <= Halves(-2) THEN 0
    ELSE IF y # NA /\ y = Halves(-1) THEN 1
    ELSE 2

CallCreateTargetClass ==
    /\ fn_pc = "call" /\ fn_name = "create_target_class"
    /\ fn_out' = Returned(create_target_class(fn_in))
    /\ fn_pc' = "done"
    /\ UNCHANGED <<fn_name, fn_in>>
    /\ UNCHANGED <<serveVars, bronzeVars, goldVars, spc, bronze_files, df_historical_reference,
                   is_cold_start, silver_log, silver_result, reports, silver_runs,
                   silver_prev_result, silver_at_start, files_read>>

\* ------------------------------------------------------------- serving API
\* Attributes of class ModelService (app/services/model_service.py).
ModelServiceAttrs == {"train_and_promote", "prepare_student_features", "get_model_metadata"}

None == [none |-> TRUE]
RequestRAs == {"1", "2", "3", "unknown"}       \* path parameter ra, a string
RunIds == {"run1"}
PredictionCodes == 0..3                        \* int(prediction[0]) of the loaded model

\* SELECT * FROM aluno_features WHERE RA = ?  with the parameter str(ra): the
\* text parameter is compared with the integer column by its numeric value.
SqlSelectByRa(table, ra) ==
    KeepRows(table.rows, {i \in 1..Len(table.rows) : ToString(table.rows[i].RA) = ra})

\* the columns of required_features that the frames of this model carry
required_features == {"RA", "ano_dados"}

\* FeatureService.get_student_features: None when the query raises (no such
\* table), when no row matches or when a required column is missing, else the
\* last matching row restricted to the required columns.
get_student_features(table, ra) ==
    IF ~table.exists THEN None
    ELSE LET student_data == SqlSelectByRa(table, ra)
         IN IF student_data = <<>> THEN None
            ELSE IF ~(required_features \subseteq table.columns) THEN None
            ELSE [c \in required_features |-> student_data[Len(student_data)][c]]

\* target_map.get(prediction_value, "Unknown Status")
target_map(code) ==
    CASE code = 0 -> "Critical (Severe Lagging)"
      [] code = 1 -> "Alert (Lagging Risk)"
      [] code = 2 -> "Expected Performance"
      [] OTHER -> "Unknown Status"

Response(route, ra, status, detail, looked_up, predicted, code) ==
    [route |-> route, ra |-> ra, status |-> status, detail |-> detail,
     looked_up |-> looked_up, predicted |-> predicted, code |-> code,
     category |-> IF code = NA THEN "" ELSE target_map(code)]

\* POST /predict/{ra}.  The lookup is the class attribute
\* ModelService.prepare_student_features_from_db; reading an attribute the
\* class does not have raises AttributeError before the try block, which the
\* framework answers with 500 Internal Server Error.
predict_by_ra(ra, prediction) ==
    IF app_model = "none"
    THEN Response("predict", ra, 503, "Model not loaded.", FALSE, FALSE, NA)
    ELSE IF "prepare_student_features_from_db" \notin ModelServiceAttrs
    THEN Response("predict", ra, 500, "Internal Server Error", FALSE, FALSE, NA)
    ELSE LET features == get_student_features(aluno_features, ra)
         IN IF features = None
            THEN Response("predict", ra, 404, "RA not found in Feature Store.", TRUE, FALSE, NA)
            ELSE IF prediction = NA
            THEN Response("predict", ra, 500, "Calculation error", TRUE, TRUE, NA)
            ELSE Response("predict", ra, 200, "", TRUE, TRUE, prediction)

PredictByRa ==
    /\ UNCHANGED <<bronzeVars, goldVars, silverVars>>
    /\ Len(responses) < MaxRequests
    /\ \E ra \in RequestRAs, prediction \in PredictionCodes \cup {NA} :
          responses' = Append(responses, predict_by_ra(ra, prediction))
    /\ UNCHANGED app_model

\* POST /promote/{run_id}: ModelService.promote_by_run_id is no attribute of
\* the class either; here the AttributeError is raised inside the try block, so
\* the route answers 400 and app.state.model keeps its value.
promote_model_version(run_id) ==
    IF "promote_by_run_id" \notin ModelServiceAttrs
    THEN [model |-> app_model,
          response |-> Response("promote", run_id, 400, "AttributeError", FALSE, FALSE, NA)]
    ELSE [model |-> "loaded",
          response |-> Response("promote", run_id, 200, "", FALSE, FALSE, NA)]

PromoteModelVersion ==
    /\ UNCHANGED <<bronzeVars, goldVars, silverVars>>
    /\ Len(responses) < MaxRequests
    /\ \E run_id \in RunIds :
          /\ responses' = Append(responses, promote_model_version(run_id).response)
          /\ app_model' = promote_model_version(run_id).model

ServeIdle == app_model = "none" /\ responses = <<>>

\* ---------------------------------------------------------- specifications
BronzeInit == BronzeIdle /\ GoldIdle /\ SilverIdle /\ ServeIdle

BronzeNext == Land \/ BronzeStart \/ BronzeOpen \/ BronzeSheet \/ BronzeArchive

SpecBronze == BronzeInit /\ [][BronzeNext]_vars

\* The Gold functions applied to one frame drawn from the bounded input set.
GoldFnInit ==
    /\ BronzeIdle
    /\ ServeIdle
    /\ SilverIdle
    /\ silver_dir = EmptyDir
    /\ gpc = "loaded"
    /\ df_silver \in GoldInputFrames
    /\ df_gold = Frame({}, <<>>)
    /\ feature_store = NoTable
    /\ train_data = NoTable
    /\ aluno_features = NoTable
    /\ gold_log = <<>>
    /\ gold_result = "running"
    /\ online_before = {}

GoldFnNext == GoldEngineer \/ GoldSaveOffline \/ GoldSaveOnline

SpecGoldFn == GoldFnInit /\ [][GoldFnNext]_vars

\* The three stages run once each, in order, on one landed workbook.
PipelineRawRows == [RA : {1, 2, NA}, Defasagem : {-1, 0}]
PipelineWorkbooks ==
    UNION {{[corrupt |-> FALSE,
             sheets |-> [i \in 1..Len(names) |->
                            [name |-> names[i], ok |-> TRUE, rows |-> rows[i]]]] :
               rows \in [1..Len(names) -> SeqsUpTo(PipelineRawRows, MaxPipelineRows)]}
           : names \in SheetSeqs}

\* data/02_silver before the run: empty, or holding a file of the older naming
LegacySilverDirs ==
    {EmptyDir} \cup
    {Put(EmptyDir, AlunosName(2022),
         Frame(GoldInputColumns, <<[RA |-> 1, ano_dados |-> 2022, defasagem |-> 0]>>))}

PipelineInit ==
    /\ BronzeRest /\ SilverIdle /\ GoldRest /\ ServeIdle
    /\ \E wb \in PipelineWorkbooks : landing = Put(EmptyDir, "a.xlsx", wb)
    /\ silver_dir \in LegacySilverDirs

PipelineNext ==
    \/ (bronze_result = "none" /\ BronzeStart)
    \/ BronzeOpen \/ BronzeSheet \/ BronzeArchive
    \/ (bronze_result = "returned" /\ silver_result = "none" /\ SilverStart)
    \/ SilverFile
    \/ (silver_result \in {"returned", "raised"} /\ gold_result = "none" /\ GoldStart)
    \/ GoldEngineer \/ GoldSaveOffline \/ GoldSaveOnline

SpecPipeline == PipelineInit /\ [][PipelineNext]_vars

\* Repeated Silver runs over one Bronze directory.  A Bronze file is a sheet
\* as make_bronze writes it, or a parquet file put there without the
\* metadata_source column; data/02_silver is empty or holds the 2022
\* partition of an earlier run.
SilverRawRows == [RA : {1, 2, NA}, Defasagem : {0}]
SilverSources == {"a.xlsx", NULLSTR}
SilverBatchFrames(sheet) ==
    {BronzeFrame(rows, source, sheet, 0) :
        rows \in SeqsUpTo(SilverRawRows, MaxBatchRows), source \in SilverSources}
SilverBronzeDirs(sheets) ==
    UNION {{d \in [S -> UNION {SilverBatchFrames(x) : x \in S}] :
               \A x \in S : d[x] \in SilverBatchFrames(x)}
           : S \in SUBSET sheets}
EarlierPartition ==
    LET rows == ProcessBatch(BronzeFrame(<<[RA |-> 1, Defasagem |-> 0]>>, "a.xlsx", "PEDE2022", 0))
    IN Frame(DOMAIN rows[1], rows)
SilverDirsAtStart == {EmptyDir, Put(EmptyDir, SilverName(2022), EarlierPartition)}

SilverInit ==
    /\ BronzeStopped /\ SilverIdle /\ GoldRest /\ ServeIdle
    /\ landing = EmptyDir
    /\ bronze \in SilverBronzeDirs(SheetNames)
    /\ silver_dir \in SilverDirsAtStart

SilverNext == SilverStart \/ SilverFile

SpecSilver == SilverInit /\ [][SilverNext]_vars

\* Silver runs over a Bronze directory of at most two files whose names may
\* carry the same year, two years or none; a file that makes a run abort may
\* be replaced between runs.  data/02_silver is empty or holds the partition
\* an earlier run wrote from sheet PEDE2022_2023.
FileSheetNames == {"PEDE2022", "PEDE2022_2023", "PEDE2023", "Plan1", "Plan2"}
FileRawRows == [RA : {1, NA}, Defasagem : {0}]
NamedBatchFrames(sheet, maxRows) ==
    {BronzeFrame(rows, "a.xlsx", sheet, 0) : rows \in SeqsUpTo(FileRawRows, maxRows) \ {<<>>}}
BronzePairDirs(names, maxRows) ==
    {EmptyDir} \cup
    UNION {{d \in [{x, y} -> NamedBatchFrames(x, maxRows) \cup NamedBatchFrames(y, maxRows)] :
               \A z \in {x, y} : d[z] \in NamedBatchFrames(z, maxRows)}
           : x \in names, y \in names}
TwoYearPartition ==
    LET rows == ProcessBatch(BronzeFrame(<<[RA |-> 1, Defasagem |-> 0]>>, "a.xlsx", "PEDE2022_2023", 0))
    IN Frame(DOMAIN rows[1], rows)

\* bronze_<sheet>.parquet is written again with the rows of a corrected sheet
RepairBronzeFile ==
    /\ UNCHANGED <<serveVars, goldVars, silverVars>>
    /\ spc = "idle"
    /\ \E sheet \in DOMAIN bronze :
          /\ \E i \in 1..Len(bronze[sheet]) : clean_ra(bronze[sheet][i].RA) = NA
          /\ bronze' = Put(bronze, sheet,
                           BronzeFrame([i \in 1..Len(bronze[sheet]) |-> [RA |-> 1, Defasagem |-> 0]],
                                       "a.xlsx", sheet, 0))
    /\ UNCHANGED <<landing, archive, bpc, files_in_landing, file_name, sheet_idx,
                   bronze_log, bronze_result, bronze_runs, drops, ingested,
                   landing_at_start, bronze_at_start, archive_at_start>>

SilverFilesInit ==
    /\ BronzeStopped /\ SilverIdle /\ GoldRest /\ ServeIdle
    /\ landing = EmptyDir
    /\ bronze \in BronzePairDirs(FileSheetNames, MaxNamedRows)
    /\ silver_dir \in {EmptyDir, Put(EmptyDir, SilverName(2022), TwoYearPartition)}

SilverFilesNext == SilverStart \/ SilverFile \/ RepairBronzeFile

SpecSilverFiles == SilverFilesInit /\ [][SilverFilesNext]_vars

\* A run that has started goes on to its end: the file loop of main takes its
\* next step.  Nothing schedules the start of a run or the repair of a file.
SpecSilverFilesLive == SpecSilverFiles /\ WF_vars(SilverFile)

\* One Silver function applied to one argument drawn from its bounded input set.
SilverFnInit ==
    /\ BronzeIdle /\ GoldIdle /\ SilverRest /\ ServeIdle
    /\ fn_pc = "call"
    /\ fn_out = <<>>
    /\ \/ fn_name = "_validate_schema_pandera" /\ fn_in \in ValidateInputs(MaxCols, MaxFnRows)
       \/ fn_name = "_extract_target_columns" /\ fn_in \in ExtractInputs(MaxFnRows)
       \/ fn_name = "_calculate_missing_ipp" /\ fn_in \in IppInputs(MaxIppRows)
       \/ fn_name = "clean_idade" /\ fn_in \in IdadeValues
       \/ fn_name = "create_target_class" /\ fn_in \in LaggingValues

SilverFnNext ==
    CallValidate \/ CallExtract \/ CallCalculateIpp \/ CallCleanIdade \/ CallCreateTargetClass

SpecSilverFn == SilverFnInit /\ [][SilverFnNext]_vars

\* Repeated Gold runs over a Silver layer that changes between runs.
GoldInit == BronzeIdle /\ GoldIdle /\ SilverIdle /\ ServeIdle

GoldNext == SilverDirChanges \/ GoldStart \/ GoldEngineer \/ GoldSaveOffline \/ GoldSaveOnline

SpecGold == GoldInit /\ [][GoldNext]_vars

\* Repeated Gold runs over one Silver layer in which reading Silver, writing
\* the offline files and writing the online database may each fail.  The
\* online table is absent or was written by an earlier run from a Silver layer
\* that has changed since.
GoldSilverDirs(names) ==
    UNION {{d \in [S -> UNION {FileFrames(n) : n \in S}] : \A n \in S : d[n] \in FileFrames(n)}
           : S \in SUBSET names}
EarlierOnlineTable ==
    Stored(Frame(GoldInputColumns, <<[RA |-> 2, ano_dados |-> 2022, defasagem |-> -1]>>))

GoldFaultsInit ==
    /\ BronzeIdle /\ SilverIdle /\ ServeIdle
    /\ silver_dir \in GoldSilverDirs(GoldInputNames)
    /\ gpc = "idle"
    /\ df_silver = Frame({}, <<>>) /\ df_gold = Frame({}, <<>>)
    /\ feature_store = NoTable /\ train_data = NoTable
    /\ aluno_features \in {NoTable, EarlierOnlineTable}
    /\ gold_log = <<>> /\ gold_result = "none"
    /\ online_before = {}

GoldFaultsNext ==
    \/ GoldStart \/ GoldEngineer \/ GoldSaveOffline \/ GoldSaveOnline
    \/ GoldLoadFails \/ GoldOfflineFails \/ GoldOnlineFails

SpecGoldFaults == GoldFaultsInit /\ [][GoldFaultsNext]_vars

\* The API serving requests over an online store that a Gold run has written
\* (or that is absent); the lifespan handler has loaded a model or has not.
ServeTables ==
    {NoTable} \cup
    {Stored(Frame({"RA", "ano_dados", "defasagem"}, rows)) :
        rows \in {r \in SeqsUpTo([RA : RAs, ano_dados : {2023}, defasagem : {0}], 2) :
                     \A i, j \in 1..Len(r) : r[i].RA = r[j].RA => i = j}}

ServeInit ==
    /\ BronzeIdle /\ SilverIdle
    /\ silver_dir = EmptyDir /\ gpc = "idle"
    /\ df_silver = Frame({}, <<>>) /\ df_gold = Frame({}, <<>>)
    /\ feature_store = NoTable /\ train_data = NoTable
    /\ aluno_features \in ServeTables
    /\ gold_log = <<>> /\ gold_result = "none"
    /\ online_before = {}
    /\ app_model \in {"none", "loaded"}
    /\ responses = <<>>

ServeNext == PredictByRa \/ PromoteModelVersion

SpecServe == ServeInit /\ [][ServeNext]_vars

\* ----------------------------------------------------- Pipeline properties
\* C3: once Bronze, Silver and Gold have run in that order, every record of
\* every partition Silver persisted is in the offline store, and Gold has
\* reported missing input only if Silver persisted no partition.
C3_GoldLoadsEverySilverPartition ==
    (gpc = "idle" /\ gold_result \in {"ok", "failed"} /\ silver_result # "none") =>
        /\ gold_result = "failed" => SilverGlob(silver_dir) = {}
        /\ \A n \in SilverGlob(silver_dir) : \A i \in 1..Len(silver_dir[n].rows) :
              /\ feature_store.exists
              /\ \E j \in 1..Len(feature_store.rows) :
                    DropColumn(feature_store.rows[j], TARGET_DEFASAGEM) = silver_dir[n].rows[i]

\* --------------------------------------------------------- Gold properties
Count(rows, r) == Cardinality({i \in 1..Len(rows) : rows[i] = r})

\* df_gold is the engineered form of df_silver
GoldPairValid == gpc # "loaded" /\ df_gold.columns # {}

\* C1: df_gold holds the input records, each with a label; a record's label is
\* the defasagem of a record of the same student that comes next in ascending
\* year order (the nearest later year, however far away; a record of the same
\* year only when the student has several records of that year), never of
\* another student; exactly one record per student has a null label, and it is
\* one of the student's maximum year.
C1_TargetIsNextRecord ==
    GoldPairValid =>
        LET g == df_gold.rows
            n == Len(g)
        IN /\ n = Len(df_silver.rows)
           /\ \A r \in Range(df_silver.rows) :
                 Count(df_silver.rows, r) =
                     Cardinality({i \in 1..n : DropColumn(g[i], TARGET_DEFASAGEM) = r})
           /\ \A i \in 1..n :
                 LET same == {j \in (1..n) \ {i} : g[j].RA = g[i].RA}
                     after == {j \in same : g[j].ano_dados > g[i].ano_dados}
                     ties == {j \in same : g[j].ano_dados = g[i].ano_dados}
                     next == {j \in after : \A k \in after : g[j].ano_dados <= g[k].ano_dados}
                     label == g[i].target_defasagem
                 IN /\ label # NA => \E j \in ties \cup next : label = g[j].defasagem
                    /\ (ties = {} /\ after # {}) => \E j \in next : label = g[j].defasagem
                    /\ (ties = {} /\ after = {}) => label = NA
           /\ \A s \in StudentIds(g) :
                 LET last == {i \in 1..n : g[i].RA = s /\ g[i].target_defasagem = NA}
                 IN /\ Cardinality(last) = 1
                    /\ \A i \in last : \A j \in 1..n :
                          g[j].RA = s => g[j].ano_dados <= g[i].ano_dados

C1_Witness ==
    /\ GoldPairValid
    /\ \E i, j, k \in 1..Len(df_gold.rows) :
          LET g == df_gold.rows
          IN /\ g[i].RA = g[j].RA /\ g[k].RA # g[i].RA
             /\ g[i].ano_dados = 2022 /\ g[j].ano_dados = 2024 /\ g[k].ano_dados = 2023
             /\ g[i].defasagem # g[j].defasagem
             /\ g[i].target_defasagem = g[j].defasagem
             /\ g[j].target_defasagem = NA
             /\ g[k].target_defasagem = NA

\* C2: after save_online_store the table exists without the target column and
\* holds, for each student id of the input and for no other, exactly one row,
\* which is an input record of that student with the student's greatest year.
C2_OnlineLatestPerStudent ==
    (gpc = "idle" /\ gold_result = "ok") =>
        LET t == aluno_features.rows
        IN /\ aluno_features.exists
           /\ TARGET_DEFASAGEM \notin aluno_features.columns
           /\ aluno_features.columns = df_silver.columns
           /\ StudentIds(t) = StudentIds(df_silver.rows)
           /\ Len(t) = Cardinality(StudentIds(df_silver.rows))
           /\ \A i \in 1..Len(t) :
                 /\ TARGET_DEFASAGEM \notin DOMAIN t[i]
                 /\ t[i] \in Range(df_silver.rows)
                 /\ \A j \in 1..Len(df_silver.rows) :
                       df_silver.rows[j].RA = t[i].RA =>
                           df_silver.rows[j].ano_dados <= t[i].ano_dados

C2_Witness ==
    /\ gpc = "idle" /\ gold_result = "ok"
    /\ Len(df_silver.rows) = 3
    /\ Len(aluno_features.rows) = 2
    /\ \E i \in 1..3 : \A j \in 1..2 : aluno_features.rows[j] # df_silver.rows[i]
    /\ df_silver.rows[1].ano_dados > df_silver.rows[2].ano_dados
    /\ df_silver.rows[1].RA = df_silver.rows[2].RA

\* C4: whenever a Gold run has completed, the online table holds one row for
\* each student of the frame that run loaded and no row for anyone else,
\* whatever the table held before the run.
C4_OnlineFullReplace ==
    (gpc = "idle" /\ gold_result = "ok") =>
        /\ StudentIds(aluno_features.rows) = StudentIds(df_silver.rows)
        /\ \A s \in StudentIds(df_silver.rows) :
              Cardinality({i \in 1..Len(aluno_features.rows) : aluno_features.rows[i].RA = s}) = 1

C4_Witness ==
    /\ gpc = "idle" /\ gold_result = "ok"
    /\ online_before \ StudentIds(aluno_features.rows) # {}
    /\ aluno_features.rows # <<>>

\* C5: feature_store.parquet holds every Gold record, null labels included;
\* train_data.parquet holds each record with a non-null label as often as the
\* offline store does, and no record with a null label.
C5_TrainIsLabelledSubset ==
    (gpc = "offline_saved" \/ (gpc = "idle" /\ gold_result = "ok")) =>
        /\ feature_store.exists /\ train_data.exists
        /\ feature_store.rows = df_gold.rows
        /\ Len(feature_store.rows) = Len(df_silver.rows)
        /\ train_data.columns = feature_store.columns
        /\ \A i \in 1..Len(train_data.rows) :
              /\ train_data.rows[i].target_defasagem # NA
              /\ train_data.rows[i] \in Range(feature_store.rows)
        /\ \A r \in Range(feature_store.rows) :
              Count(train_data.rows, r) =
                  IF r.target_defasagem # NA THEN Count(feature_store.rows, r) ELSE 0

C5_Witness ==
    /\ gpc = "offline_saved"
    /\ Len(feature_store.rows) = 3
    /\ Len(train_data.rows) = 1
    /\ \E i \in 1..3 : feature_store.rows[i].target_defasagem = NA

\* ------------------------------------------------------- Bronze properties
BronzeRunEnds == bpc # "idle" /\ bpc' = "idle"
BronzeRunOver == bpc = "idle" /\ bronze_result \in {"returned", "raised"}

SheetsOf(wb) == {wb.sheets[i].name : i \in 1..Len(wb.sheets)}

\* C6: every landing file whose sheets all succeed is, at the end of the run,
\* gone from landing and in the archive under the same name, with a Bronze file
\* for each of its sheets; and whenever a file is moved to the archive, all of
\* its sheets have already been written from it.
C6_CleanFileArchived ==
    [][ /\ BronzeRunEnds =>
             \A n \in DOMAIN landing_at_start :
                 AllSheetsOk(landing_at_start[n]) =>
                     /\ n \notin DOMAIN landing'
                     /\ n \in DOMAIN archive'
                     /\ archive'[n] = landing_at_start[n]
                     /\ SheetsOf(landing_at_start[n]) \subseteq DOMAIN bronze'
        /\ \A n \in DOMAIN landing :
             (n \notin DOMAIN archive \/ archive'[n] # archive[n]) /\ n \in DOMAIN archive' =>
                 \A i \in 1..Len(landing[n].sheets) :
                     /\ landing[n].sheets[i].name \in DOMAIN bronze
                     /\ bronze[landing[n].sheets[i].name] =
                            BronzeFrame(landing[n].sheets[i].rows, n,
                                        landing[n].sheets[i].name, bronze_runs)
      ]_vars

C6_Witness ==
    /\ BronzeRunOver
    /\ \E n \in DOMAIN landing_at_start :
          /\ AllSheetsOk(landing_at_start[n])
          /\ Len(landing_at_start[n].sheets) = 2
          /\ n \notin DOMAIN landing
          /\ n \in DOMAIN archive
          /\ SheetsOf(landing_at_start[n]) \subseteq DOMAIN bronze

\* C7: a run in which a file raises still returns normally; the failing file is
\* still in landing, its archive entry is untouched, and every other file of the
\* run was visited (archived when clean, logged as an error when failing).
C7_FailureIsolated ==
    [][ BronzeRunEnds =>
          /\ bronze_result' = "returned"
          /\ \A n \in DOMAIN landing_at_start :
                IF AllSheetsOk(landing_at_start[n])
                THEN /\ n \in DOMAIN archive' /\ archive'[n] = landing_at_start[n]
                     /\ n \notin DOMAIN landing'
                ELSE /\ n \in DOMAIN landing' /\ landing'[n] = landing_at_start[n]
                     /\ (n \in DOMAIN archive') = (n \in DOMAIN archive_at_start)
                     /\ n \in DOMAIN archive' => archive'[n] = archive_at_start[n]
                     /\ \E i \in 1..Len(bronze_log') :
                           bronze_log'[i] = [level |-> "error", msg |-> "error_processing", file |-> n]
      ]_vars

C7_Witness ==
    /\ BronzeRunOver
    /\ Len(bronze_log) = 2
    /\ bronze_log[1].level = "error"
    /\ bronze_log[2].msg = "archived"
    /\ bronze_log[1].file \in DOMAIN landing
    /\ bronze_log[2].file \in DOMAIN archive

\* C8: a clean landing file whose name is already in the archive replaces the
\* archived file, and the run returns normally.
C8_ArchiveOverwritten ==
    [][ BronzeRunEnds =>
          \A n \in (DOMAIN landing_at_start) \cap (DOMAIN archive_at_start) :
              AllSheetsOk(landing_at_start[n]) =>
                  /\ bronze_result' = "returned"
                  /\ n \in DOMAIN archive'
                  /\ archive'[n] = landing_at_start[n]
      ]_vars

C8_Witness ==
    /\ BronzeRunOver
    /\ \E n \in (DOMAIN landing_at_start) \cap (DOMAIN archive_at_start) :
          /\ AllSheetsOk(landing_at_start[n])
          /\ archive_at_start[n] # landing_at_start[n]
          /\ archive[n] = landing_at_start[n]

\* C9: a run that finds the landing directory empty changes no directory and
\* logs exactly the "no files" warning; a run whose files were all clean leaves
\* the landing directory empty, so the run after it is such a run.
C9_EmptyLandingNoOp ==
    [][ /\ (bpc = "idle" /\ bronze_runs' = bronze_runs + 1 /\ DOMAIN landing = {}) =>
             /\ bronze' = bronze /\ archive' = archive /\ landing' = landing
             /\ ingested' = ingested
             /\ bpc' = "idle" /\ bronze_result' = "returned"
             /\ bronze_log' = <<[level |-> "warning", msg |-> "no_files", file |-> ""]>>
        /\ (BronzeRunEnds /\ \A n \in DOMAIN landing_at_start : AllSheetsOk(landing_at_start[n])) =>
             DOMAIN landing' = {}
      ]_vars

C9_Witness ==
    /\ bpc = "idle"
    /\ bronze_runs = 2
    /\ DOMAIN landing_at_start = {}
    /\ DOMAIN archive # {}
    /\ bronze_log = <<[level |-> "warning", msg |-> "no_files", file |-> ""]>>
    /\ bronze = bronze_at_start /\ archive = archive_at_start

\* C10: between runs the Bronze directory holds one file per ingested
\* (source, sheet) pair, and the rows of each file carry such a pair.
C10_OneFilePerPair ==
    bpc = "idle" =>
        /\ Cardinality(DOMAIN bronze) = Cardinality(ingested)
        /\ \A s \in DOMAIN bronze : \A i \in 1..Len(bronze[s]) :
              /\ bronze[s][i].metadata_sheet = s
              /\ <<bronze[s][i].metadata_source, s>> \in ingested

\* ------------------------------------------------------- Silver properties
LoggedIn(log, msg, year) == \E i \in 1..Len(log) : log[i].msg = msg /\ log[i].year = year

\* C11: a Bronze file whose year already has a partition silver_<year> is
\* skipped: it is not read, data/02_silver, the baseline and the reports stay
\* as they are and only the skip is logged; and a run that follows a run which
\* returned, over the same Bronze files, reads nothing and writes nothing.
C11_ExistingPartitionSkipped ==
    /\ [][ (/\ spc = "file" /\ bronze_files # <<>>
            /\ SilverName(SheetYear(Head(bronze_files))) \in DOMAIN silver_dir) =>
              /\ silver_dir' = silver_dir
              /\ files_read' = files_read
              /\ reports' = reports
              /\ df_historical_reference' = df_historical_reference
              /\ silver_log' = Append(silver_log,
                     [level |-> "info", msg |-> "skipping", year |-> SheetYear(Head(bronze_files))])
              /\ spc' = "file"
         ]_vars
    /\ [](silver_prev_result = "returned" => (silver_dir = silver_at_start /\ files_read = {}))

C11_Witness ==
    /\ spc = "idle"
    /\ silver_runs = 2
    /\ silver_prev_result = "returned" /\ silver_result = "returned"
    /\ LoggedIn(silver_log, "skipping", 2022) /\ LoggedIn(silver_log, "skipping", 2023)
    /\ silver_at_start = silver_dir
    /\ SilverName(2023) \in DOMAIN silver_dir

\* C12: every partition in data/02_silver holds one record per (RA, year):
\* several Bronze rows of one student are reduced to one before the write.
C12_OneRecordPerStudentYear ==
    \A n \in SilverGlob(silver_dir) :
        \A i, j \in 1..Len(silver_dir[n].rows) :
            (/\ silver_dir[n].rows[i].RA = silver_dir[n].rows[j].RA
             /\ silver_dir[n].rows[i].ano_dados = silver_dir[n].rows[j].ano_dados) => i = j

\* C13: when schema validation of a batch fails, the step writes nothing to
\* data/02_silver, leaves the baseline as it was and ends the run with the
\* error raised; after such a run the failed year has no partition and no
\* row in the baseline.
C13_SchemaFailureWritesNothing ==
    /\ [][ (/\ spc = "file" /\ bronze_files # <<>>
            /\ SilverName(SheetYear(Head(bronze_files))) \notin DOMAIN silver_dir
            /\ ~BatchRaises(bronze[Head(bronze_files)])
            /\ SchemaFails(ProcessBatch(bronze[Head(bronze_files)]))) =>
              /\ silver_dir' = silver_dir
              /\ df_historical_reference' = df_historical_reference
              /\ reports' = reports
              /\ silver_result' = "raised" /\ spc' = "idle"
              /\ silver_log' = Append(silver_log,
                     [level |-> "error", msg |-> "schema_validation_error",
                      year |-> SheetYear(Head(bronze_files))])
         ]_vars
    /\ [](\A y \in {2022, 2023} :
             (spc = "idle" /\ LoggedIn(silver_log, "schema_validation_error", y)) =>
                 /\ silver_result = "raised"
                 /\ SilverName(y) \notin DOMAIN silver_dir
                 /\ ~YearInReference(y, df_historical_reference))

C13_Witness ==
    /\ spc = "idle" /\ silver_result = "raised"
    /\ LoggedIn(silver_log, "schema_validation_error", 2023)
    /\ LoggedIn(silver_log, "saved", 2022)
    /\ SilverName(2022) \in DOMAIN silver_dir
    /\ SilverName(2023) \notin DOMAIN silver_dir
    /\ df_historical_reference = silver_dir[SilverName(2022)].rows

\* C14: a batch of a run that is not a cold start, once it has passed schema
\* validation, is written to silver_<year> whatever the drift check found and
\* the run goes on; detected drift leaves a warning and a report, nothing else.
C14_DriftNeverBlocksPersistence ==
    /\ [][ (/\ spc = "file" /\ bronze_files # <<>> /\ ~is_cold_start
            /\ SilverName(SheetYear(Head(bronze_files))) \notin DOMAIN silver_dir
            /\ ~BatchRaises(bronze[Head(bronze_files)])
            /\ ~SchemaFails(ProcessBatch(bronze[Head(bronze_files)]))) =>
              LET year == SheetYear(Head(bronze_files))
                  rows == ProcessBatch(bronze[Head(bronze_files)])
              IN /\ SilverName(year) \in DOMAIN silver_dir'
                 /\ silver_dir'[SilverName(year)].rows = rows
                 /\ \A n \in DOMAIN silver_dir : silver_dir'[n] = silver_dir[n]
                 /\ year \in reports'
                 /\ spc' = "file" /\ silver_result' = "running"
                 /\ \E level \in {"info", "warning"}, msg \in {"drift_detected", "stable", "report_generated"} :
                       silver_log' = silver_log \o
                           <<[level |-> level, msg |-> msg, year |-> year],
                             [level |-> "info", msg |-> "saved", year |-> year]>>
         ]_vars
    /\ [](\A y \in {2022, 2023} :
             LoggedIn(silver_log, "drift_detected", y) =>
                 /\ SilverName(y) \in DOMAIN silver_dir
                 /\ LoggedIn(silver_log, "saved", y)
                 /\ y \in reports
                 /\ \A i \in 1..Len(silver_log) :
                       (silver_log[i].msg = "drift_detected" /\ silver_log[i].year = y) =>
                           silver_log[i].level = "warning")

C14_Witness ==
    /\ spc = "idle" /\ silver_result = "returned"
    /\ ~is_cold_start
    /\ LoggedIn(silver_log, "drift_detected", 2023)
    /\ SilverName(2023) \in DOMAIN silver_dir
    /\ SilverName(2023) \notin DOMAIN silver_at_start
    /\ 2023 \in reports

\* C15: a run that finds no Silver partition makes no drift comparison and
\* writes no report, persists every valid batch and has its rows in the
\* baseline, and returns when every Bronze file is valid; a drift comparison
\* is logged only in a run that found a partition.
C15_ColdStartNoComparison ==
    LET cold == SilverGlob(silver_at_start) = {}
        valid(sheet) == ~BatchRaises(bronze[sheet]) /\ ~SchemaFails(ProcessBatch(bronze[sheet]))
    IN silver_result \in {"running", "returned", "raised"} =>
        /\ (\E i \in 1..Len(silver_log) :
                silver_log[i].msg \in {"drift_detected", "stable", "report_generated"}) => ~cold
        /\ cold =>
            /\ reports = {}
            /\ \A y \in {2022, 2023} :
                 LoggedIn(silver_log, "saved", y) =>
                     /\ SilverName(y) \in DOMAIN silver_dir
                     /\ \A i \in 1..Len(silver_dir[SilverName(y)].rows) :
                           \E j \in 1..Len(df_historical_reference) :
                               df_historical_reference[j] = silver_dir[SilverName(y)].rows[i]
            /\ (spc = "idle" /\ \A sheet \in DOMAIN bronze : valid(sheet)) =>
                 /\ silver_result = "returned"
                 /\ \A sheet \in DOMAIN bronze :
                       /\ LoggedIn(silver_log, "saved", SheetYear(sheet))
                       /\ silver_dir[SilverName(SheetYear(sheet))].rows = ProcessBatch(bronze[sheet])

C15_Witness ==
    /\ spc = "idle" /\ silver_result = "returned"
    /\ SilverGlob(silver_at_start) = {}
    /\ LoggedIn(silver_log, "saved", 2022) /\ LoggedIn(silver_log, "saved", 2023)
    /\ Len(df_historical_reference) >= 2
    /\ reports = {}

\* ---------------------------------------------- Silver function properties
\* C16: a frame returned by _validate_schema_pandera has exactly the canonical
\* columns in canonical order and the rows of its input; a canonical column the
\* input lacked is null in every row, a canonical column the input had keeps
\* its values, and no other input column is left.
C16_CanonicalColumns ==
    (fn_pc = "done" /\ fn_name = "_validate_schema_pandera" /\ ~fn_out.raised) =>
        /\ fn_out.value.columns = COLUMNS_TO_KEEP
        /\ Len(fn_out.value.rows) = Len(fn_in.rows)
        /\ \A i \in 1..Len(fn_in.rows) :
              /\ DOMAIN fn_out.value.rows[i] = Range(COLUMNS_TO_KEEP)
              /\ \A c \in Range(COLUMNS_TO_KEEP) :
                    fn_out.value.rows[i][c] =
                        IF c \in Range(fn_in.columns) THEN fn_in.rows[i][c] ELSE NULLSTR

C16_Witness ==
    /\ fn_pc = "done" /\ fn_name = "_validate_schema_pandera" /\ ~fn_out.raised
    /\ fn_in.columns = <<"metadata_sheet", "ano_ingresso", "metadata_source">>
    /\ Len(fn_in.rows) = 1
    /\ fn_out.value.rows[1]["idade"] = NULLSTR
    /\ fn_out.value.rows[1]["metadata_sheet"] = "x"

\* column of `df` a priority list selects: the candidate of least position
\* that is a header, if there is one
Selected(names, cols) ==
    IF \E k \in 1..Len(names) : names[k] \in cols
    THEN LET k == CHOOSE k \in 1..Len(names) :
                     names[k] \in cols /\ \A l \in 1..(k - 1) : names[l] \notin cols
         IN {names[k]}
    ELSE {}

\* value the extraction must give field f in row i for the priority list names
ExtractsBy(f, names, i) ==
    LET cols == {Normalise(h) : h \in fn_in.columns}
        sel == Selected(names, cols)
    IN IF sel = {} THEN fn_out.value[i][f] = NULLSTR
       ELSE \E h \in fn_in.columns :
               Normalise(h) \in sel /\ fn_out.value[i][f] = fn_in.rows[i][h]

ExtractReturned ==
    fn_pc = "done" /\ fn_name = "_extract_target_columns" /\ ~fn_out.raised

\* C17 as stated: idade and inde_atual are taken from the exact name when it
\* is a header, and from field_<YYYY>, then field_<YY>, only when it is not.
C17_ExactNameFirst ==
    ExtractReturned =>
        LET yf == year_full(fn_in.rows[1]["metadata_sheet"])
            ys == year_short(fn_in.rows[1]["metadata_sheet"])
        IN \A i \in 1..Len(fn_in.rows) :
              /\ ExtractsBy("idade", <<Plain("idade"), Suffixed("idade", yf), Suffixed("idade", ys)>>, i)
              /\ ExtractsBy("inde_atual", <<Plain("inde"), Suffixed("inde", yf), Suffixed("inde", ys)>>, i)

\* C17 (amended): every field is taken from the first header of its priority
\* list: for idade and inde_atual field_<YYYY>, then field_<YY>, then the exact
\* name, with the year of the sheet; for defasagem "defasagem" then "defas";
\* for RA "ra".  A field with no candidate among the headers is null in every
\* row, and the result has the rows of the input.
C17_FirstCandidateWins ==
    ExtractReturned =>
        LET yf == year_full(fn_in.rows[1]["metadata_sheet"])
            ys == year_short(fn_in.rows[1]["metadata_sheet"])
        IN /\ Len(fn_out.value) = Len(fn_in.rows)
           /\ \A i \in 1..Len(fn_in.rows) :
              /\ ExtractsBy("idade", <<Suffixed("idade", yf), Suffixed("idade", ys), Plain("idade")>>, i)
              /\ ExtractsBy("inde_atual", <<Suffixed("inde", yf), Suffixed("inde", ys), Plain("inde")>>, i)
              /\ ExtractsBy("defasagem", <<Plain("defasagem"), Plain("defas")>>, i)
              /\ ExtractsBy("RA", <<Plain("ra")>>, i)
              /\ fn_out.value[i]["fase"] = NULLSTR

C17_Witness ==
    /\ ExtractReturned
    /\ fn_in.columns = {"Idade", " Idade 23 ", "Idade 22", "INDE", "metadata_sheet"}
    /\ fn_in.rows[1]["metadata_sheet"] = "PEDE2023"
    /\ fn_out.value[1]["idade"] = " Idade 23 "
    /\ fn_out.value[1]["inde_atual"] = "INDE"
    /\ fn_out.value[1]["RA"] = NULLSTR

IppReturned == fn_pc = "done" /\ fn_name = "_calculate_missing_ipp"
IppOf(row) == row["indicador_psico_pedagogico"]
\* 10000 * (INDE - (0.1 IAN + 0.2 IDA + 0.2 IEG + 0.1 IAA + 0.1 IPS + 0.2 IPV)) / 0.1
ExactIpp(row) ==
    10 * row["inde_atual"].val
    - (row["indicador_adequacao_nivel"].val + 2 * row["indicador_aprendizagem"].val
       + 2 * row["indicador_engajamento"].val + row["indicador_auto_avaliacao"].val
       + row["indicador_psicossocial"].val + 2 * row["indicador_ponto_virada"].val)

\* C18: when IPP is null in every row, each row whose seven operands are
\* numbers gets the multiple of 0.001 nearest to
\* (INDE - (0.1 IAN + 0.2 IDA + 0.2 IEG + 0.1 IAA + 0.1 IPS + 0.2 IPV)) / 0.1
\* as its IPP, a row with a missing operand gets NaN; INDE 8.0 with 7, 8, 9, 8,
\* 7, 8 gives 8.0 and INDE 7.5 with 5, 6, 8, 7, 6, 7 gives 15.0.
C18_IppReconstructed ==
    (IppReturned /\ \A i \in 1..Len(fn_in) : isna(IppOf(fn_in[i]))) =>
        /\ Len(fn_out.value) = Len(fn_in)
        /\ \A i \in 1..Len(fn_in) :
              LET out == IppOf(fn_out.value[i])
              IN /\ out.kind = "float"
                 /\ IF \E c \in cols_to_numeric : fn_in[i][c].val = NA
                    THEN out.val = NA
                    ELSE /\ out.val # NA
                         /\ out.val % 10 = 0
                         /\ out.val - ExactIpp(fn_in[i]) \in -5..5
                 /\ (/\ fn_in[i]["inde_atual"].val = 80000
                     /\ fn_in[i]["indicador_adequacao_nivel"].val = 70000
                     /\ fn_in[i]["indicador_aprendizagem"].val = 80000
                     /\ fn_in[i]["indicador_engajamento"].val = 90000
                     /\ fn_in[i]["indicador_auto_avaliacao"].val = 80000
                     /\ fn_in[i]["indicador_psicossocial"].val = 70000
                     /\ fn_in[i]["indicador_ponto_virada"].val = 80000) => out.val = 80000
                 /\ (/\ fn_in[i]["inde_atual"].val = 75000
                     /\ fn_in[i]["indicador_adequacao_nivel"].val = 50000
                     /\ fn_in[i]["indicador_aprendizagem"].val = 60000
                     /\ fn_in[i]["indicador_engajamento"].val = 80000
                     /\ fn_in[i]["indicador_auto_avaliacao"].val = 70000
                     /\ fn_in[i]["indicador_psicossocial"].val = 60000
                     /\ fn_in[i]["indicador_ponto_virada"].val = 70000) => out.val = 150000

C18_Witness ==
    /\ IppReturned
    /\ Len(fn_in) = 2
    /\ isna(IppOf(fn_in[1])) /\ isna(IppOf(fn_in[2]))
    /\ fn_in[1]["inde_atual"] = Num(80000) /\ IppOf(fn_out.value[1]) = Num(80000)
    /\ fn_in[2]["inde_atual"] = Str(71234) /\ fn_in[2]["indicador_aprendizagem"] = Str(66667)
    /\ ExactIpp(fn_in[2]) = 1229 /\ IppOf(fn_out.value[2]) = Num(1230)

\* C19: when some row has a non-null IPP the frame is returned as it was
\* given: no IPP is set or replaced and no indicator cell is converted.
C19_IppLeftAlone ==
    (IppReturned /\ \E i \in 1..Len(fn_in) : ~isna(IppOf(fn_in[i]))) =>
        fn_out.value = fn_in

C19_Witness ==
    /\ IppReturned
    /\ Len(fn_in) = 2
    /\ IppOf(fn_in[1]) = Num(99900) /\ IppOf(fn_in[2]) = NullCell
    /\ fn_in[2]["inde_atual"] = Str(71234)
    /\ IppOf(fn_out.value[1]) = Num(99900) /\ IppOf(fn_out.value[2]) = NullCell
    /\ fn_out.value[2]["inde_atual"] = Str(71234)

\* C20: clean_idade returns for every value: the day DD for a string
\* "1900-01-DD...", the integer part for any other value that parses as a
\* number, and the value it was given, never a null in its place, for every
\* value that cannot be parsed, null included.
C20_CleanIdadeTotal ==
    (fn_pc = "done" /\ fn_name = "clean_idade") =>
        /\ ~fn_out.raised
        /\ fn_out.value =
              IF fn_in.shape = "1900-01-" /\ fn_in.n \in 1..31 THEN IntValue(fn_in.n)
              ELSE IF fn_in.shape = "number"
                   THEN IntValue(IF fn_in.n >= 0 THEN fn_in.n \div 10 ELSE -((-fn_in.n) \div 10))
                   ELSE fn_in

\* ------------------------------------------------------ Serving properties
\* C21: with a model loaded, POST /predict/{ra} for an RA without a row in the
\* online feature store answers 404 with a "not found" detail and does not
\* call the model; with no model loaded it answers 503 before any lookup.
C21_MissingRaIs404 ==
    \A i \in 1..Len(responses) :
        LET r == responses[i]
        IN r.route = "predict" =>
              /\ app_model = "none" => (r.status = 503 /\ ~r.looked_up)
              /\ (app_model = "loaded" /\ get_student_features(aluno_features, r.ra) = None)
                    => /\ r.status = 404
                       /\ r.detail = "RA not found in Feature Store."
                       /\ ~r.predicted

\* C22: create_target_class returns for every lagging value a class in
\* {0, 1, 2}: 0 for every value <= -2, 1 for -1 and 2 for every value >= 0; and
\* the serving route maps exactly the codes 0, 1, 2 to the Critical, Alert and
\* Expected categories.
C22_TargetClassTotal ==
    /\ (fn_name = "create_target_class" /\ fn_pc = "done") =>
          /\ ~fn_out.raised
          /\ fn_out.value \in {0, 1, 2}
          /\ (fn_in # NA /\ fn_in <= Halves(-2)) => fn_out.value = 0
          /\ (fn_in = Halves(-1)) => fn_out.value = 1
          /\ (fn_in # NA /\ fn_in >= Halves(0)) => fn_out.value = 2
          /\ target_map(fn_out.value) =
                CASE fn_out.value = 0 -> "Critical (Severe Lagging)"
                  [] fn_out.value = 1 -> "Alert (Lagging Risk)"
                  [] fn_out.value = 2 -> "Expected Performance"
    /\ \A code \in PredictionCodes \ {0, 1, 2} :
          target_map(code) \notin {target_map(0), target_map(1), target_map(2)}
    /\ Cardinality({target_map(0), target_map(1), target_map(2)}) = 3

\* the boundary value -2 has been classified
C22_Witness ==
    fn_name = "create_target_class" /\ fn_pc = "done" /\ fn_in = Halves(-2) /\ fn_out = Returned(0)

\* ------------------------------------- Silver properties, repeated runs
\* C23: a Bronze row whose RA is null or holds no embedded integer yields a
\* Silver record with a null RA, and the batch that contains it is validated
\* and persisted: once a run has read a Bronze file with such a row (and with
\* nothing else wrong), the partition of its year exists and holds a record
\* whose RA is null.
C23_NullRaPersisted ==
    \A sheet \in files_read :
        LET frame == bronze[sheet]
        IN (/\ \E i \in 1..Len(frame) : clean_ra(frame[i].RA) = NA
            /\ \A i \in 1..Len(frame) :
                  /\ ParseInt(frame[i].Defasagem) # NA
                  /\ frame[i].metadata_source # NULLSTR
                  /\ SheetYear(frame[i].metadata_sheet) # UNKNOWN)
           => /\ PartitionExists(silver_dir, SilverName(SheetYear(sheet)))
              /\ \E i \in 1..Len(silver_dir[SilverName(SheetYear(sheet))].rows) :
                    silver_dir[SilverName(SheetYear(sheet))].rows[i].RA = NA

Occurrences(seq, r) == Cardinality({i \in 1..Len(seq) : seq[i] = r})
PersistedRows == ConcatRows(silver_dir, CHOOSE order \in Orders(SilverGlob(silver_dir)) : TRUE)

\* C24: within one Silver run the in-memory baseline that a later file meets
\* holds the partitions found at run start and every batch persisted earlier
\* in the run, each exactly once: while files remain to be visited, every
\* record occurs in the baseline as often as in the partitions on disk.
C24_BaselineHoldsAcceptedBatches ==
    (spc = "file" /\ bronze_files # <<>>) =>
        \A r \in Range(df_historical_reference) \cup Range(PersistedRows) :
            Occurrences(df_historical_reference, r) = Occurrences(PersistedRows, r)

\* the rows of a Bronze file carry a parseable RA and defasagem and their lineage
CleanRows(frame) ==
    \A i \in 1..Len(frame) :
        /\ clean_ra(frame[i].RA) # NA
        /\ ParseInt(frame[i].Defasagem) # NA
        /\ frame[i].metadata_source # NULLSTR

\* C28: at most one Bronze file contributes to each partition.  When two
\* Bronze file names carry the same first 4-digit year, or both carry none
\* and map to "unknown", the file visited while the partition of that year is
\* absent is persisted as that partition, and a file visited once it exists
\* is skipped, leaving data/02_silver as it was.
C28_OneFilePerPartition ==
    [][(spc = "file" /\ bronze_files # <<>>) =>
          LET sheet == Head(bronze_files)
              year == SheetYear(sheet)
              twins == {t \in (DOMAIN bronze) \ {sheet} : SheetYear(t) = year}
          IN (twins # {} /\ CleanRows(bronze[sheet])) =>
                IF PartitionExists(silver_dir, SilverName(year))
                THEN files_read' = files_read /\ silver_dir' = silver_dir
                ELSE /\ DOMAIN silver_dir' = (DOMAIN silver_dir) \cup {SilverName(year)}
                     /\ silver_dir'[SilverName(year)].rows = ProcessBatch(bronze[sheet])
      ]_vars

\* every Bronze file's year has a partition
AllPartitioned == \A sheet \in DOMAIN bronze : SilverName(SheetYear(sheet)) \in DOMAIN silver_dir
\* every Bronze file whose year has no partition passes cleaning and validation
NothingBlocks ==
    \A sheet \in DOMAIN bronze :
        \/ SilverName(SheetYear(sheet)) \in DOMAIN silver_dir
        \/ (~BatchRaises(bronze[sheet]) /\ ~SchemaFails(ProcessBatch(bronze[sheet])))

\* C29: when a Silver run aborts on a Bronze file, the partitions written
\* before stay on disk and the files after the failing one are left
\* unprocessed; a run visits each file and processes it exactly when its year
\* has no partition, skipping the others; and once no remaining file makes the
\* run fail, a run ends with a partition for every Bronze file, after which
\* further runs over the same files change nothing.
C29_AbortedRunsConverge ==
    /\ [][/\ \A n \in DOMAIN silver_dir : n \in DOMAIN silver_dir' /\ silver_dir'[n] = silver_dir[n]
          /\ (silver_result = "running" /\ silver_result' = "raised") =>
                /\ spc' = "idle"
                /\ Range(bronze_files') \cap files_read' = {}
                /\ \A t \in Range(bronze_files') :
                      SilverName(SheetYear(t)) \in DOMAIN silver_dir' =>
                         SilverName(SheetYear(t)) \in DOMAIN silver_dir
          /\ (spc = "file" /\ bronze_files # <<>>) =>
                IF SilverName(SheetYear(Head(bronze_files))) \in DOMAIN silver_dir
                THEN files_read' = files_read /\ silver_dir' = silver_dir
                ELSE files_read' = files_read \cup {Head(bronze_files)}
          /\ (AllPartitioned /\ bronze' = bronze) => silver_dir' = silver_dir
       ]_vars
    /\ [](silver_result = "returned" => AllPartitioned)
    /\ ((spc = "file" /\ NothingBlocks) ~> (silver_result = "returned" /\ AllPartitioned))

\* a run wrote the 2023 partition and then aborted; the failing file was
\* replaced, and the next run skipped 2023, processed the other file and ended
C29_Witness ==
    /\ silver_prev_result = "raised"
    /\ silver_result = "returned"
    /\ SilverName(2023) \in DOMAIN silver_at_start
    /\ Cardinality(DOMAIN bronze) = 2
    /\ files_read # {}
    /\ AllPartitioned

\* -------------------------------------------- Bronze properties, no loss
\* index of the first sheet of a workbook that raises (0 when none does)
FirstBadSheet(wb) ==
    IF AllSheetsOk(wb) \/ wb.corrupt THEN 0
    ELSE CHOOSE k \in 1..Len(wb.sheets) :
            ~wb.sheets[k].ok /\ \A i \in 1..(k - 1) : wb.sheets[i].ok

\* C25: when a workbook fails on its k-th sheet, the step that catches the
\* failure removes nothing: the Bronze files of its sheets 1..k-1, written from
\* it, are still there, and at the end of the run those files exist and the
\* workbook is still in the landing directory, unchanged.
C25_NoRollbackOfWrittenSheets ==
    [][/\ (bpc = "sheet" /\ sheet_idx <= Len(landing[file_name].sheets)
              /\ ~landing[file_name].sheets[sheet_idx].ok) =>
             /\ bronze' = bronze
             /\ landing' = landing
             /\ \A i \in 1..(sheet_idx - 1) :
                   LET sh == landing[file_name].sheets[i]
                   IN /\ sh.name \in DOMAIN bronze'
                      /\ bronze'[sh.name] = BronzeFrame(sh.rows, file_name, sh.name, bronze_runs)
       /\ BronzeRunEnds =>
             \A n \in DOMAIN landing_at_start :
                 FirstBadSheet(landing_at_start[n]) > 0 =>
                     /\ \A i \in 1..(FirstBadSheet(landing_at_start[n]) - 1) :
                           landing_at_start[n].sheets[i].name \in DOMAIN bronze'
                     /\ n \in DOMAIN landing'
                     /\ landing'[n] = landing_at_start[n]
                     /\ bronze_result' = "returned"
      ]_vars

\* a run is over in which a workbook failed on its second sheet: the file of
\* its first sheet, written from it in this run, is on disk and the workbook
\* is in the landing directory
C25_Witness ==
    /\ BronzeRunOver
    /\ \E n \in DOMAIN landing_at_start :
          /\ FirstBadSheet(landing_at_start[n]) = 2
          /\ n \in DOMAIN landing
          /\ landing_at_start[n].sheets[1].name \notin DOMAIN bronze_at_start
          /\ landing_at_start[n].sheets[1].name \in DOMAIN bronze
          /\ bronze[landing_at_start[n].sheets[1].name][1].metadata_source = n

\* C27: Bronze ingestion never loses a source file: every file name in the
\* landing directory when a run starts is, when the run ends, in the landing
\* directory or in the archive; no step of a run removes a name from both; and
\* a file is in the archive only if every sheet of it was written to Bronze.
C27_NoSourceFileLost ==
    /\ [][/\ BronzeRunEnds =>
                \A n \in DOMAIN landing_at_start :
                    n \in (DOMAIN landing') \cup (DOMAIN archive')
          /\ \A n \in (DOMAIN landing) \cup (DOMAIN archive) :
                n \in (DOMAIN landing') \cup (DOMAIN archive')
       ]_vars
    /\ [](\A n \in DOMAIN archive :
             /\ AllSheetsOk(archive[n])
             /\ \A sheet \in SheetsOf(archive[n]) : <<n, sheet>> \in ingested)

\* a run is over that archived one file and left a failing one in landing
C27_Witness ==
    /\ BronzeRunOver
    /\ Cardinality(DOMAIN landing_at_start) = 2
    /\ \E n \in DOMAIN landing_at_start : n \in DOMAIN archive /\ n \notin DOMAIN landing
    /\ \E n \in DOMAIN landing_at_start : n \in DOMAIN landing /\ n \notin DOMAIN archive

\* ----------------------------------------------- Gold properties, failures
LogsError(log) == \E i \in 1..Len(log) : log[i].level = "error"

\* C26: the Gold run never raises to its caller: a failure while loading
\* Silver, writing the offline files or writing the online database ends the
\* run with the failure logged, and a failure of the online-store write leaves
\* the offline files written in the same run as they are.
C26_GoldRunNeverRaises ==
    /\ [](gold_result # "raised")
    /\ [][/\ (gpc' = "idle" /\ gold_log' # gold_log /\ gold_result' # "ok") =>
                (gold_result' = "failed" /\ LogsError(gold_log'))
          /\ (gpc = "offline_saved" /\ gpc' = "idle") =>
                /\ feature_store' = feature_store /\ feature_store.rows = df_gold.rows
                /\ train_data' = train_data /\ train_data.exists
                /\ gold_result' = "ok"
                /\ aluno_features' # to_sql(aluno_features, OnlineSnapshot(df_gold)) =>
                      LogsError(gold_log')
          /\ (gpc = "engineered" /\ gpc' = "idle") => LogsError(gold_log')
       ]_vars

\* the online write of a run failed and dropped the table; the offline files
\* the run wrote are there
C26_Witness ==
    /\ gpc = "idle" /\ gold_result = "ok"
    /\ LogsError(gold_log)
    /\ feature_store.exists /\ feature_store.rows = df_gold.rows /\ feature_store.rows # <<>>
    /\ train_data.exists
    /\ ~aluno_features.exists
    /\ online_before # {}

\* C30: after a Gold run that logged no failure the offline and the online
\* store agree: the online table holds exactly the student ids of
\* feature_store.parquet, one row each, and every online row is an offline row
\* of that student with the student's greatest year, without the label column.
C30_StoresConsistent ==
    (gpc = "idle" /\ gold_result = "ok" /\ ~LogsError(gold_log)) =>
        LET online == aluno_features.rows
            offline == feature_store.rows
        IN /\ aluno_features.exists /\ feature_store.exists
           /\ StudentIds(online) = StudentIds(offline)
           /\ Len(online) = Cardinality(StudentIds(offline))
           /\ aluno_features.columns = feature_store.columns \ {TARGET_DEFASAGEM}
           /\ \A i \in 1..Len(online) :
                 \E j \in 1..Len(offline) :
                     /\ online[i] = DropColumn(offline[j], TARGET_DEFASAGEM)
                     /\ \A k \in 1..Len(offline) :
                           offline[k].RA = offline[j].RA =>
                               offline[k].ano_dados <= offline[j].ano_dados

\* a run without a logged failure replaced the table of an earlier run: a
\* student has two offline rows and the online row is the later one
C30_Witness ==
    /\ gpc = "idle" /\ gold_result = "ok" /\ ~LogsError(gold_log)
    /\ Len(feature_store.rows) = 2
    /\ Len(aluno_features.rows) = 1
    /\ aluno_features.rows[1].ano_dados = 2023
    /\ aluno_features.rows[1].RA = 1
    /\ online_before = {2}

====
